---------------------------- MODULE Spec2Model ----------------------------
(***************************************************************************)
(* Market-making engines of Hyperliquid/scripts: market_maker.py (the      *)
(* enhanced engine), mm_simple.py (the simple engine) and                  *)
(* order_book_vwap_mm.py (the VWAP-skew engine).                           *)
(*                                                                         *)
(* Units.  Sizes and positions are integers in lots of 0.0001 coin (the    *)
(* enhanced engine's BASE_SIZE), so MAX_POSITION = 0.01 is 100 lots and    *)
(* STOP_TRADING_THRESHOLD = 0.008 is 80 lots.  Prices are integers; a mid  *)
(* price is carried doubled (mid2 = best_bid + best_ask) so that it stays  *)
(* an integer, and PnL is carried in the matching unit (half price units   *)
(* times lots).  Float rounding is not modelled.  Time is an integer       *)
(* clock; the durations of the code are scaled to a few ticks.             *)
(*                                                                         *)
(* Scheduling.  The engines are asyncio programs: a task runs until it     *)
(* suspends.  Acquiring an uncontended asyncio.Lock does not suspend, and  *)
(* no lock of these programs is held across a suspension, so the steps     *)
(* below are the code between two real suspension points (asyncio.sleep,   *)
(* asyncio.to_thread, ws.recv).                                            *)
(***************************************************************************)
EXTENDS Integers, Sequences, FiniteSets, TLC

(* ------------------------------ bounds -------------------------------- *)
\* fills delivered by the userFills channel in one run
MaxFills == 2
\* last value of the clock
MaxClock == 4
\* RateLimiter.max_requests (MAX_REQUESTS_PER_SECOND = 10, scaled down)
MaxRequests == 2
\* RateLimiter.window in ticks (RATE_LIMIT_WINDOW = 1.0 s, scaled down)
RateWindow == 2
\* tasks calling RateLimiter.acquire concurrently; task 1 is run()
NumCallers == 2
\* order ids the exchange hands out in one run
MaxOid == 2
\* book updates delivered in one run
MaxBooks == 2
\* MIN_HOLD_SECONDS (3 s) in ticks, scaled down
MIN_HOLD_SECONDS == 2
\* VOL_WINDOW_SECONDS (30 s) in ticks, scaled down
VOL_WINDOW_SECONDS == 3
MaxTickPrice == 25
MantissaBits == 5
MaxWindow == 4
MaxLevels == 3

(* ------------------------- program constants -------------------------- *)
COIN == "BTC"
\* the margin acquire() adds to its sleep (0.005 s): one tick
RL_EPS == 1
\* market_maker.py risk and strategy parameters, in lots and price units
BASE_SIZE == 1
MAX_POSITION == 100
STOP_TRADING_THRESHOLD == 80
MIN_ORDER_NOTIONAL == 5
DRY_RUN == FALSE
\* order_book_vwap_mm.py parameters: MAX_POSITION = 0.001 is 10 lots,
\* BASE_SIZE = 0.0003 is 3 lots, CIRCUIT_BREAKER_MULT = 1.5 is 3/2
VWAP_MAX_POSITION == 10
VWAP_BASE_SIZE == 3
CIRCUIT_BREAKER_MULT_X2 == 3
LEVELS == 2
MIN_REQUOTE_MOVE == 50
VWAP_DRY_RUN == FALSE
POSITION_SKEW_FACTOR_X2 == 3
MAX_RECONNECT_ATTEMPTS == 10
MAX_RECONNECT_DELAY == 30
TICK_SIZE == 1

VARIABLES
  variant,          \* which engine runs: "simple", "enhanced" or "vwap"
  clock,            \* time.time()
  position,         \* PositionTracker.position
  rec_pc,           \* reconcile task: "sleep" or "query" (user_state in flight)
  price_buffer,     \* EnhancedMarketMaker.price_buffer: <<[t, mid2]>>
  fill_records,     \* EnhancedMarketMaker.fill_records
  fills_received,   \* Metrics.fills_received
  last_fill_time,   \* Metrics.last_fill_time
  total_pnl,        \* Metrics.total_pnl
  last,             \* history: the step just taken and its inputs
  recon_value,      \* history: position written by the last overwrite
  buys_since,       \* history: buy sizes delivered since the last overwrite
  sells_since,      \* history: sell sizes delivered since the last overwrite
  only_valid,       \* history: every fill delivered since the last overwrite
                    \*   was a valid, non-snapshot fill of the instrument
  nfills,           \* history: fills delivered by the userFills channel
  inflight,         \* history: fills delivered since user_state was queried
  requests,         \* RateLimiter.requests
  rl_pc,            \* per calling task: "idle" or "sleeping" inside acquire()
  rl_wake,          \* per calling task: when its asyncio.sleep ends
  rl_admitted,      \* history: the timestamps acquire() recorded, in order
  open_oids,        \* OrderManager.open_oids
  om_pc,            \* where the OrderManager call in progress stands
  om,               \* locals of that call
  next_oid,         \* the exchange: the next order id it hands out
  last_mid,         \* EnhancedMarketMaker.last_mid (doubled; 0 is None)
  last_quote_time,  \* EnhancedMarketMaker.last_quote_time
  q_pc,             \* handle_l2book: "idle", "cancel" or "place"
  q,                \* the book update last taken up: its locals and outcome
  cancels_sent,     \* Metrics.cancels_sent
  quotes_sent,      \* Metrics.quotes_sent
  mid_adj_ema,      \* MarketMakerBot.mid_adj_ema in 1/40 price units; 0 is None
  circuit_breaker_active,  \* MarketMakerBot.circuit_breaker_active
  last_requote,     \* Metrics.last_requote of the VWAP engine
  stop_event,       \* self.stop_event.is_set()
  sup_pc,           \* where run() is
  retry_count,      \* run()'s retry_count
  reconnect_delay,  \* run()'s reconnect_delay, seconds
  hb_pc,            \* the heartbeat task of the current connection
  aux_pc,           \* healthcheck_loop and metrics_loop
  rec_exited,       \* reconcile_loop has ended
  inbox,            \* messages the socket holds, oldest first
  arrived,          \* history: messages that arrived so far
  handled,          \* history: number of the last message a handler took up
  fails_in_row,     \* history: failed connection attempts since the last success
  final_cancels     \* history: final cancel_all calls of run()

vars == <<variant, clock, position, rec_pc, price_buffer, fill_records,
          fills_received, last_fill_time, total_pnl, last, recon_value,
          buys_since, sells_since, only_valid, nfills, inflight, requests, rl_pc,
          rl_wake, rl_admitted, open_oids, om_pc, om, next_oid, last_mid,
          last_quote_time, q_pc, q, cancels_sent, quotes_sent, mid_adj_ema,
          circuit_breaker_active, last_requote, stop_event, sup_pc, retry_count,
          reconnect_delay, hb_pc, aux_pc, rec_exited, inbox, arrived, handled,
          fails_in_row, final_cancels>>

posVars == <<position, rec_pc, recon_value, buys_since, sells_since, only_valid,
            inflight>>
fillVars == <<fill_records, fills_received, last_fill_time, total_pnl, nfills>>
rlVars == <<requests, rl_pc, rl_wake, rl_admitted>>
omVars == <<open_oids, om_pc, om, next_oid>>
quoteVars == <<last_mid, last_quote_time, q_pc, q, cancels_sent, quotes_sent>>
vwapVars == <<mid_adj_ema, circuit_breaker_active, last_requote>>
runVars == <<stop_event, sup_pc, retry_count, reconnect_delay, hb_pc, aux_pc,
             rec_exited, inbox, arrived, handled, fails_in_row, final_cancels>>

Variants == {"simple", "enhanced", "vwap"}

(* ------------------------------ inputs -------------------------------- *)
\* One element of a userFills payload.  szk/pxk say whether the key holds a
\* number ("num"), something float() rejects ("bad") or is missing ("none");
\* side "none" is a missing key, "X" an unrecognized side.
MkFill(isdict, coin, side, szk, sz, pxk, px, snap) ==
  [isdict |-> isdict, coin |-> coin, side |-> side, szk |-> szk, sz |-> sz,
   pxk |-> pxk, px |-> px, isSnapshot |-> snap]

GoodFills ==
  { MkFill(TRUE, COIN, "B", "num", 1, "num", 100, FALSE),
    MkFill(TRUE, COIN, "A", "num", 2, "num", 101, FALSE) }

OddFills ==
  { MkFill(TRUE, "ETH", "B", "num", 1, "num", 100, FALSE),   \* other coin
    MkFill(TRUE, COIN, "none", "num", 1, "num", 100, FALSE), \* no side
    MkFill(TRUE, COIN, "A", "num", 1, "none", 0, FALSE) }    \* no px

FillUniverse == GoodFills \cup OddFills

FillLists == UNION { [1..n -> FillUniverse] : n \in 0..MaxFills }

\* data of a userFills envelope: a dict {isSnapshot?, fills}, a bare list or
\* anything else (kind "other": a truthy value that is neither).
FillsData ==
  { [kind |-> "dict", isSnapshot |-> s, fills |-> fl] : s \in BOOLEAN, fl \in FillLists }
  \cup { [kind |-> "list", isSnapshot |-> FALSE, fills |-> fl] : fl \in FillLists }
  \cup { [kind |-> "other", isSnapshot |-> FALSE, fills |-> <<>>] }

\* A fill the specification calls valid: well-formed (side, size, price), of
\* the tracked instrument, with a recognized side, not flagged historical.
ValidFill(f) ==
  /\ f.isdict
  /\ ~f.isSnapshot
  /\ f.coin = COIN
  /\ f.side \in {"B", "A"}
  /\ f.szk = "num"
  /\ f.pxk = "num"

\* A fill the specification has discarded: a record without side, size or
\* price, or one of another instrument.
Rejectable(f) ==
  \/ f.side = "none" \/ f.szk = "none" \/ f.pxk = "none"
  \/ f.coin # COIN

RECURSIVE SumSide(_, _)
SumSide(fills, side) ==
  IF fills = <<>> THEN 0
  ELSE (IF ValidFill(Head(fills)) /\ Head(fills).side = side THEN Head(fills).sz ELSE 0)
       + SumSide(Tail(fills), side)

\* One entry of user_state["assetPositions"]; szik as szk above.
MkAsset(coin, szik, szi) == [coin |-> coin, szik |-> szik, szi |-> szi]

Szi == {-81, 0, 80, 81}

\* user_state: falsy or without "assetPositions" (has = FALSE), or a list.
UserStates ==
  { [has |-> FALSE, assets |-> <<>>],
    [has |-> TRUE, assets |-> <<MkAsset("ETH", "num", 7)>>],
    [has |-> TRUE, assets |-> <<MkAsset(COIN, "bad", 0)>>],
    [has |-> TRUE, assets |-> <<MkAsset("ETH", "num", 7), MkAsset(COIN, "num", 80)>>] }
  \cup { [has |-> TRUE, assets |-> <<MkAsset(COIN, "num", v)>>] : v \in Szi }

(* -------------------------- PositionTracker --------------------------- *)
update_from_fill_sell_adds(pos, f) ==
  IF ~f.isdict \/ f.coin # COIN \/ f.szk = "bad" THEN pos
  ELSE LET sz == IF f.szk = "none" THEN 0 ELSE f.sz
       IN  IF f.side \in {"B", "A"} THEN pos + sz ELSE pos

\* PositionTracker.update_from_fill: the position after fill f.
update_from_fill(pos, f) ==
  IF ~f.isdict THEN pos
  ELSE IF f.coin # COIN THEN pos
  ELSE IF f.szk = "bad" THEN pos                  \* float() raises: return
  ELSE LET sz == IF f.szk = "none" THEN 0 ELSE f.sz   \* fill.get("sz", 0)
       IN  IF f.side = "B" THEN pos + sz
           ELSE IF f.side = "A" THEN pos - sz
           ELSE pos

\* Index of the first asset of the tracked coin, 0 if there is none.
RECURSIVE FirstMatch(_, _)
FirstMatch(assets, i) ==
  IF i > Len(assets) THEN 0
  ELSE IF assets[i].coin = COIN THEN i
  ELSE FirstMatch(assets, i + 1)

\* The locked section of update_from_api in the simple and enhanced engines:
\* the new position for user_state us (float() failures give 0.0).
new_pos_guarded(us) ==
  LET i == IF us.has THEN FirstMatch(us.assets, 1) ELSE 0
  IN  IF i = 0 THEN 0
      ELSE IF us.assets[i].szik = "num" THEN us.assets[i].szi
      ELSE 0

\* The VWAP engine's update_from_api has no try around float(): raises(us)
\* says the call raises instead of returning.
raises_vwap(us) ==
  LET i == IF us.has THEN FirstMatch(us.assets, 1) ELSE 0
  IN  i # 0 /\ us.assets[i].szik = "bad"

update_from_api_merges(v, pos, us) == pos + new_pos_guarded(us)

\* PositionTracker.update_from_api after a successful query: the position it
\* leaves (the prior position when the VWAP engine's float() raises).
update_from_api(v, pos, us) ==
  IF v = "vwap" /\ raises_vwap(us) THEN pos ELSE new_pos_guarded(us)


(* --------------------------- fill handlers ---------------------------- *)
\* The state a fill handler reads and writes.
FillState ==
  [position |-> position, fill_records |-> fill_records,
   fills_received |-> fills_received, last_fill_time |-> last_fill_time,
   total_pnl |-> total_pnl]

get_latest_mid_oldest(pb) == IF pb # <<>> THEN <<pb[1].mid2>> ELSE <<>>

\* EnhancedMarketMaker.get_latest_mid: <<mid2>> or <<>> (None).
get_latest_mid(pb) == IF pb # <<>> THEN <<pb[Len(pb)].mid2>> ELSE <<>>

\* EnhancedMarketMaker.handle_user_fills (append_fill_csv only writes a file).
handle_user_fills_enhanced(fs, f, pb, now) ==
  IF ~f.isdict THEN fs
  ELSE IF f.isSnapshot THEN fs
  ELSE IF f.side = "none" \/ f.szk = "none" \/ f.pxk = "none" THEN fs
  ELSE IF f.coin # COIN THEN fs
  ELSE IF f.szk = "bad" \/ f.pxk = "bad" THEN fs
  ELSE LET pos_after == update_from_fill(fs.position, f)
           exec2 == 2 * f.px
           latest == get_latest_mid(pb)
           mid2 == IF latest = <<>> THEN exec2 ELSE latest[1]
           pnl_inc == IF f.side = "B" THEN (mid2 - exec2) * f.sz
                      ELSE (exec2 - mid2) * f.sz
           rec == [timestamp |-> now, side |-> f.side, size |-> f.sz,
                   execution_price2 |-> exec2, mid_price2 |-> mid2,
                   position_after |-> pos_after, pnl_incremental |-> pnl_inc]
       IN  [position |-> pos_after,
            fill_records |-> Append(fs.fill_records, rec),
            fills_received |-> fs.fills_received + 1,
            last_fill_time |-> now,
            total_pnl |-> fs.total_pnl + pnl_inc]

\* SimpleMarketMaker.handle_user_fills.
handle_user_fills_simple(fs, f) ==
  IF ~f.isdict THEN fs
  ELSE IF f.side = "none" \/ f.szk = "none" THEN fs
  ELSE [fs EXCEPT !.position = update_from_fill(fs.position, f),
                  !.fills_received = fs.fills_received + 1]

\* MarketMakerBot.handle_user_fills.
handle_user_fills_vwap(fs, f) ==
  IF ~f.isdict THEN fs
  ELSE IF f.side = "none" \/ f.szk = "none" THEN fs
  ELSE [fs EXCEPT !.position = update_from_fill(fs.position, f),
                  !.fills_received = fs.fills_received + 1]

handle_user_fills(v, fs, f, pb, now) ==
  IF v = "enhanced" THEN handle_user_fills_enhanced(fs, f, pb, now)
  ELSE IF v = "simple" THEN handle_user_fills_simple(fs, f)
  ELSE handle_user_fills_vwap(fs, f)

\* The userFills branch of the three receive loops: the fills handed to
\* handle_user_fills, in order.
fills_enhanced(data) ==
  IF data.kind = "dict" /\ data.isSnapshot THEN <<>>       \* skip entire snapshot
  ELSE IF data.kind \in {"dict", "list"} THEN data.fills
  ELSE <<>>

fills_simple(data) ==
  IF data.kind \in {"dict", "list"} THEN data.fills ELSE <<>>

fills_vwap(data) ==
  IF data.kind \in {"dict", "list"}
  THEN SelectSeq(data.fills, LAMBDA f : f.isdict)
  ELSE <<>>

fills_of(v, data) ==
  IF v = "enhanced" THEN fills_enhanced(data)
  ELSE IF v = "simple" THEN fills_simple(data)
  ELSE fills_vwap(data)

RECURSIVE handle_fills(_, _, _, _, _)
handle_fills(v, fs, fills, pb, now) ==
  IF fills = <<>> THEN fs
  ELSE handle_fills(v, handle_user_fills(v, fs, Head(fills), pb, now),
                    Tail(fills), pb, now)

\* `data.get("data")` is falsy for an empty list.
Truthy(data) == ~(data.kind = "list" /\ data.fills = <<>>)

\* Receive loop, channel "userFills": the whole message is handled without
\* a suspension (no handler step waits on a thread or a timer).
RecvUserFills(data) ==
  /\ rec_pc \in {"sleep", "query"}
  /\ nfills + Len(data.fills) <= MaxFills
  /\ LET fs == IF Truthy(data)
               THEN handle_fills(variant, FillState, fills_of(variant, data),
                                 price_buffer, clock)
               ELSE FillState
     IN  /\ position' = fs.position
         /\ fill_records' = fs.fill_records
         /\ fills_received' = fs.fills_received
         /\ last_fill_time' = fs.last_fill_time
         /\ total_pnl' = fs.total_pnl
  /\ nfills' = nfills + Len(data.fills)
  /\ inflight' = inflight + Len(data.fills)
  /\ only_valid' = (only_valid /\ ~data.isSnapshot
                    /\ \A i \in 1..Len(data.fills) : ValidFill(data.fills[i]))
  /\ buys_since' = buys_since
                   + (IF data.isSnapshot THEN 0 ELSE SumSide(data.fills, "B"))
  /\ sells_since' = sells_since
                    + (IF data.isSnapshot THEN 0 ELSE SumSide(data.fills, "A"))
  /\ last' = [op |-> "userFills", isSnapshot |-> data.isSnapshot,
              nfills |-> Len(data.fills),
              rejects |-> Len(data.fills) > 0
                          /\ \A i \in 1..Len(data.fills) : Rejectable(data.fills[i])]
  /\ UNCHANGED <<variant, clock, rec_pc, price_buffer, recon_value, rlVars, omVars, quoteVars>>

(* --------------------------- reconciliation --------------------------- *)
query_failed_resets(pos) == [position |-> 0, ret |-> 0]

\* update_from_api when the user_state query raises: the error is logged
\* and `return self.position`.
query_failed(pos) == [position |-> pos, ret |-> pos]

\* What a completed update_from_api leaves behind; `overwrote` is whether
\* the locked section assigned self.position.
Reconciled(us, ok) ==
  LET raised == ok /\ variant = "vwap" /\ raises_vwap(us)
      overwrote == ok /\ ~raised
      failed == query_failed(position)
  IN  /\ position' = IF ok THEN update_from_api(variant, position, us)
                     ELSE failed.position
      /\ recon_value' = IF overwrote THEN position' ELSE recon_value
      /\ buys_since' = IF overwrote THEN 0 ELSE buys_since
      /\ sells_since' = IF overwrote THEN 0 ELSE sells_since
      /\ only_valid' = IF overwrote THEN TRUE ELSE only_valid
      /\ inflight' = 0
      /\ last' = [op |-> "update_from_api", ok |-> ok, raised |-> raised,
                  user_state |-> us, during |-> inflight,
                  ret |-> IF ok THEN position' ELSE failed.ret]

\* run(): the first update_from_api, awaited before the socket is opened.
\* An exception out of it (the VWAP engine's float()) ends run().
StartupReconcile(us, ok) ==
  /\ rec_pc = "init"
  /\ Reconciled(us, ok)
  /\ rec_pc' = IF ok /\ variant = "vwap" /\ raises_vwap(us) THEN "crashed" ELSE "sleep"
  /\ UNCHANGED <<variant, clock, price_buffer, fillVars, rlVars, omVars, quoteVars>>

\* reconcile_loop, simple and enhanced engines: the sleep ends and
\* info.user_state goes to a thread; the event loop keeps running.
ReconcileStart ==
  /\ rec_pc = "sleep"
  /\ variant # "vwap"
  /\ rec_pc' = "query"
  /\ inflight' = 0
  /\ last' = [op |-> "user_state"]
  /\ UNCHANGED <<variant, clock, position, price_buffer, fillVars, recon_value,
                 buys_since, sells_since, only_valid, rlVars, omVars, quoteVars>>

\* ... and the thread's answer (ok) or exception (~ok) arrives.
ReconcileReturn(us, ok) ==
  /\ rec_pc = "query"
  /\ Reconciled(us, ok)
  /\ rec_pc' = "sleep"
  /\ UNCHANGED <<variant, clock, price_buffer, fillVars, rlVars, omVars, quoteVars>>

\* reconcile_position_loop, VWAP engine: info.user_state is called on the
\* event loop itself, so the whole reconciliation is one step.
ReconcileSync(us, ok) ==
  /\ rec_pc = "sleep"
  /\ variant = "vwap"
  /\ Reconciled(us, ok)
  /\ rec_pc' = "sleep"
  /\ UNCHANGED <<variant, clock, price_buffer, fillVars, rlVars, omVars, quoteVars>>

Tick ==
  /\ clock < MaxClock
  /\ clock' = clock + 1
  /\ UNCHANGED <<variant, posVars, price_buffer, fillVars, rlVars, omVars, quoteVars,
                 last>>

(* ----------------------------- RateLimiter ---------------------------- *)
Callers == 1..NumCallers

\* acquire(): `while self.requests and self.requests[0] < now - self.window:
\* popleft()`.
RECURSIVE purge(_, _)
purge(reqs, now) ==
  IF reqs # <<>> /\ reqs[1] < now - RateWindow THEN purge(Tail(reqs), now)
  ELSE reqs

\* acquire() up to its first suspension: either it records `now` and returns
\* (sleep = FALSE) or it goes to sleep until `wake`.
acquire_enter(reqs, now) ==
  LET kept == purge(reqs, now)
      sleep_time == IF kept # <<>> THEN kept[1] + RateWindow - now + RL_EPS ELSE 0
  IN  IF Len(kept) >= MaxRequests /\ sleep_time > 0
      THEN [sleep |-> TRUE, wake |-> now + sleep_time, requests |-> kept]
      ELSE [sleep |-> FALSE, wake |-> now, requests |-> Append(kept, now)]

\* acquire() after its sleep: `self.requests.append(time.time())`, with no
\* second look at the window.
acquire_wake(reqs, now) == Append(reqs, now)

\* A task calls acquire().
RLAcquire(c) ==
  /\ rl_pc[c] = "idle"
  /\ LET r == acquire_enter(requests, clock)
     IN  /\ requests' = r.requests
         /\ rl_pc' = [rl_pc EXCEPT ![c] = IF r.sleep THEN "sleeping" ELSE "idle"]
         /\ rl_wake' = IF r.sleep THEN [rl_wake EXCEPT ![c] = r.wake] ELSE rl_wake
         /\ rl_admitted' = IF r.sleep THEN rl_admitted ELSE Append(rl_admitted, clock)
  /\ last' = [op |-> "acquire"]
  /\ UNCHANGED <<variant, clock, posVars, price_buffer, fillVars, omVars, quoteVars>>

\* Its asyncio.sleep ends (not before the requested time, possibly after).
RLWake(c) ==
  /\ rl_pc[c] = "sleeping"
  /\ clock >= rl_wake[c]
  /\ requests' = acquire_wake(requests, clock)
  /\ rl_pc' = [rl_pc EXCEPT ![c] = "idle"]
  /\ rl_admitted' = Append(rl_admitted, clock)
  /\ last' = [op |-> "acquire"]
  /\ UNCHANGED <<variant, clock, posVars, price_buffer, fillVars, omVars, quoteVars, rl_wake>>

(* ----------------------------- OrderManager --------------------------- *)
NoCall == [op |-> "none"]

\* An order of a batch: its side.  The size is BASE_SIZE for every order;
\* the limit price does not feed back into the engine's state and is not
\* carried.
Order(is_buy) == [is_buy |-> is_buy]
Batches == {<<>>, <<Order(TRUE)>>, <<Order(FALSE)>>, <<Order(TRUE), Order(FALSE)>>}

\* What exchange.cancel can give: status "ok", another response, an exception.
CancelReplies == {"ok", "rejected", "exception"}

\* Per-order statuses of a bulk_orders response, with the ids the exchange
\* hands out for the resting ones, from `next` on.
RECURSIVE Statuses(_, _)
Statuses(n, next) ==
  IF n = 0 THEN {<<>>}
  ELSE { <<[kind |-> "resting", oid |-> next]>> \o t : t \in Statuses(n - 1, next + 1) }
       \cup { <<[kind |-> k, oid |-> 0]>> \o t :
                k \in {"error", "filled"}, t \in Statuses(n - 1, next) }

Resting(statuses) == SelectSeq(statuses, LAMBDA st : st.kind = "resting")

\* What exchange.bulk_orders can give for a batch of n orders: an exception,
\* a falsy response, a status other than "ok", or "ok" with the statuses.
PlaceReplies(n, next) ==
  { [kind |-> k, statuses |-> <<>>] : k \in {"exception", "none", "err"} }
  \cup { [kind |-> "ok", statuses |-> sts] : sts \in Statuses(n, next) }

cancel_all_begin_acquires_first(oids, reqs, now) ==
  [done |-> oids = {}, requests |-> acquire_enter(reqs, now).requests]

\* cancel_all up to `if not oids: return 0`.
cancel_all_begin(oids, reqs, now) == [done |-> oids = {}, requests |-> reqs]

\* cancel_all() is called: snapshot of the tracked ids.
CancelAllBegin ==
  /\ om_pc = "idle"
  /\ LET b == cancel_all_begin(open_oids, requests, clock)
     IN  /\ requests' = b.requests
         /\ om_pc' = IF b.done THEN "cancel_done" ELSE "cancel_next"
         /\ om' = [op |-> "cancel_all", snapshot |-> open_oids, todo |-> open_oids,
                   cur |-> 0, wake |-> 0, cancelled |-> 0, failed |-> {},
                   confirmed |-> {}, refused |-> {}, threw |-> {}, ret |-> 0,
                   reqs_before |-> requests]
  /\ last' = [op |-> "cancel_all"]
  /\ UNCHANGED <<open_oids, next_oid>>

\* for oid in oids: await self.rate_limiter.acquire(), then the cancel goes
\* out (to a thread; the VWAP engine calls it on the event loop).
CancelNext ==
  /\ om_pc = "cancel_next"
  /\ \E oid \in om.todo :
       LET r == acquire_enter(requests, clock)
       IN  /\ requests' = r.requests
           /\ om_pc' = IF r.sleep THEN "cancel_sleep" ELSE "cancel_call"
           /\ om' = [om EXCEPT !.cur = oid, !.wake = r.wake]
  /\ last' = [op |-> "cancel_all"]
  /\ UNCHANGED <<open_oids, next_oid>>

CancelWake ==
  /\ om_pc = "cancel_sleep"
  /\ clock >= om.wake
  /\ requests' = acquire_wake(requests, clock)
  /\ om_pc' = "cancel_call"
  /\ last' = [op |-> "cancel_all"]
  /\ UNCHANGED <<open_oids, om, next_oid>>

cancel_reply_always_discards(open, cancelled, failed, oid, reply) ==
  [open_oids |-> open \ {oid}, cancelled |-> cancelled + 1, failed |-> failed]

cancel_reply_forgets_refused(open, cancelled, failed, oid, reply) ==
  IF reply = "ok"
  THEN [open_oids |-> open \ {oid}, cancelled |-> cancelled + 1, failed |-> failed]
  ELSE [open_oids |-> open \ {oid}, cancelled |-> cancelled, failed |-> failed \cup {oid}]

\* The body of the loop after exchange.cancel answered.
cancel_reply(open, cancelled, failed, oid, reply) ==
  IF reply = "ok"
  THEN [open_oids |-> open \ {oid}, cancelled |-> cancelled + 1, failed |-> failed]
  ELSE [open_oids |-> open, cancelled |-> cancelled, failed |-> failed \cup {oid}]

cancel_all_loop_first_only(todo, v) ==
  IF v = "vwap" THEN "cancel_delay" ELSE "cancel_done"

\* `for oid in oids`: on to the next id, or past the loop.
cancel_all_loop(todo, v) ==
  IF todo # {} THEN "cancel_next"
  ELSE IF v = "vwap" THEN "cancel_delay"
  ELSE "cancel_done"

\* exchange.cancel answers; after the last id cancel_all returns (the VWAP
\* engine sleeps CANCEL_DELAY first).
CancelReply(reply) ==
  /\ om_pc = "cancel_call"
  /\ LET r == cancel_reply(open_oids, om.cancelled, om.failed, om.cur, reply)
         todo == om.todo \ {om.cur}
     IN  /\ open_oids' = r.open_oids
         /\ om' = [om EXCEPT !.todo = todo, !.cancelled = r.cancelled,
                             !.failed = r.failed, !.ret = r.cancelled,
                             !.confirmed = IF reply = "ok" THEN @ \cup {om.cur} ELSE @,
                             !.refused = IF reply = "rejected" THEN @ \cup {om.cur} ELSE @,
                             !.threw = IF reply = "exception" THEN @ \cup {om.cur} ELSE @]
         /\ om_pc' = cancel_all_loop(todo, variant)
  /\ last' = [op |-> "cancel_all"]
  /\ UNCHANGED <<requests, next_oid>>

\* order_book_vwap_mm.py: `await asyncio.sleep(CANCEL_DELAY)` ends.
CancelDelayEnd ==
  /\ om_pc = "cancel_delay"
  /\ om_pc' = "cancel_done"
  /\ last' = [op |-> "cancel_all"]
  /\ UNCHANGED <<requests, open_oids, om, next_oid>>

\* place_orders(batch) is called: `if not orders: return []`, else acquire().
PlaceBegin(batch) ==
  /\ om_pc = "idle"
  /\ LET r == IF batch = <<>> THEN [sleep |-> FALSE, wake |-> 0, requests |-> requests]
              ELSE acquire_enter(requests, clock)
     IN  /\ requests' = r.requests
         /\ om_pc' = IF batch = <<>> THEN "place_done"
                     ELSE IF r.sleep THEN "place_sleep" ELSE "place_call"
         /\ om' = [op |-> "place_orders", batch |-> batch, wake |-> r.wake,
                   open_before |-> open_oids, reqs_before |-> requests,
                   reply |-> [kind |-> "nocall", statuses |-> <<>>], ret |-> <<>>]
  /\ last' = [op |-> "place_orders"]
  /\ UNCHANGED <<open_oids, next_oid>>

PlaceWake ==
  /\ om_pc = "place_sleep"
  /\ clock >= om.wake
  /\ requests' = acquire_wake(requests, clock)
  /\ om_pc' = "place_call"
  /\ last' = [op |-> "place_orders"]
  /\ UNCHANGED <<open_oids, om, next_oid>>

RECURSIVE place_statuses_stop_at_error(_, _, _)
place_statuses_stop_at_error(open, oids, statuses) ==
  IF statuses = <<>> THEN [open_oids |-> open, ret |-> oids]
  ELSE LET st == Head(statuses)
       IN  IF st.kind = "resting"
           THEN place_statuses_stop_at_error(open \cup {st.oid}, Append(oids, st.oid),
                                             Tail(statuses))
           ELSE IF st.kind = "error" THEN [open_oids |-> open, ret |-> <<>>]
           ELSE place_statuses_stop_at_error(open, oids, Tail(statuses))

\* place_orders: `for st in ...statuses: if "resting" in st: ... elif "error"
\* in st: ...` over the rest of the statuses.
RECURSIVE place_statuses(_, _, _)
place_statuses(open, oids, statuses) ==
  IF statuses = <<>> THEN [open_oids |-> open, ret |-> oids]
  ELSE LET st == Head(statuses)
       IN  IF st.kind = "resting"
           THEN place_statuses(open \cup {st.oid}, Append(oids, st.oid), Tail(statuses))
           ELSE place_statuses(open, oids, Tail(statuses))

place_reply_tracks_on_failure(open, reply) ==
  place_statuses(open \cup {0}, <<>>, reply.statuses)

\* place_orders after exchange.bulk_orders answered.
place_reply(open, reply) ==
  IF reply.kind # "ok" THEN [open_oids |-> open, ret |-> <<>>]
  ELSE place_statuses(open, <<>>, reply.statuses)

\* exchange.bulk_orders answers and place_orders returns.
PlaceReply ==
  /\ om_pc = "place_call"
  /\ \E reply \in PlaceReplies(Len(om.batch), next_oid) :
       /\ next_oid + Len(Resting(reply.statuses)) <= MaxOid + 1
       /\ LET r == place_reply(open_oids, reply)
          IN  /\ open_oids' = r.open_oids
              /\ om' = [om EXCEPT !.reply = reply, !.ret = r.ret]
       /\ next_oid' = next_oid + Len(Resting(reply.statuses))
  /\ om_pc' = "place_done"
  /\ last' = [op |-> "place_orders"]
  /\ UNCHANGED requests

\* The caller takes the result of the finished call.
OMReturn ==
  /\ om_pc \in {"cancel_done", "place_done"}
  /\ om_pc' = "idle"
  /\ om' = NoCall
  /\ last' = [op |-> "return"]
  /\ UNCHANGED <<requests, open_oids, next_oid>>

\* What an OrderManager step leaves alone.
OMFrame == UNCHANGED <<variant, clock, posVars, price_buffer, fillVars, rl_pc,
                       rl_wake, rl_admitted, quoteVars>>

(* ------------------- EnhancedMarketMaker.handle_l2book ---------------- *)
\* The account states the quoting engine is run against: the instrument
\* alone, at the threshold (80 lots) or one lot beyond it on either side.
QuoteUserStates ==
  {[has |-> TRUE, assets |-> <<MkAsset(COIN, "num", v)>>] : v \in {-81, 80, 81}}

Abs(x) == IF x < 0 THEN -x ELSE x
Max(a, b) == IF a >= b THEN a ELSE b

\* An l2Book payload: ok is FALSE when a side is missing, empty or its px
\* does not parse.
MkBook(ok, bid, ask) == [ok |-> ok, bid |-> bid, ask |-> ask]

\* A missing side, a book around 100001, one 1 % above it and one around
\* 101 (notional below the minimum).
Books ==
  {MkBook(FALSE, 0, 0), MkBook(TRUE, 100000, 100002), MkBook(TRUE, 101000, 101002),
   MkBook(TRUE, 100, 102)}

\* q before the first update.  The locals (pos, mid2, now, orders) are kept
\* while handle_l2book is quoting.  placed_at: when the last place_orders
\* that placed something returned.  halted_before: an earlier update was
\* stopped by the kill switch.
NoBook == [n |-> 0, outcome |-> "none", pos |-> 0, mid2 |-> 0, now |-> 0,
           orders |-> <<>>, placed_at |-> 0, halted_before |-> FALSE]

\* update_price_buffer: drop the samples older than the window.
RECURSIVE purge_prices(_, _)
purge_prices(pb, cutoff) ==
  IF pb # <<>> /\ pb[1].t < cutoff THEN purge_prices(Tail(pb), cutoff) ELSE pb

update_price_buffer(pb, now, mid2) ==
  purge_prices(Append(pb, [t |-> now, mid2 |-> mid2]), now - VOL_WINDOW_SECONDS)

debounce_ignores_hold(mid2, lm, lqt, now) ==
  /\ lm # 0
  /\ Abs(mid2 - lm) * 10000 < 2 * Max(lm, 2)

\* rel_move < 0.0002 and (now - last_quote_time) < MIN_HOLD_SECONDS, when
\* last_mid is not None.
debounce(mid2, lm, lqt, now) ==
  /\ lm # 0
  /\ Abs(mid2 - lm) * 10000 < 2 * Max(lm, 2)
  /\ now - lqt < MIN_HOLD_SECONDS

kill_switch_off(pos) == FALSE

kill_switch_long_only(pos) == pos > STOP_TRADING_THRESHOLD

kill_switch_inclusive(pos) == Abs(pos) >= STOP_TRADING_THRESHOLD

\* Kill switch: abs_pos > STOP_TRADING_THRESHOLD.
kill_switch(pos) == Abs(pos) > STOP_TRADING_THRESHOLD

\* notional = BASE_SIZE * mid < MIN_ORDER_NOTIONAL (lots of 0.0001, mid
\* doubled).
notional_too_small(mid2) == BASE_SIZE * mid2 < 2 * MIN_ORDER_NOTIONAL * 10000

build_orders_one_gate(pos) ==
  IF pos + BASE_SIZE <= MAX_POSITION THEN <<Order(TRUE), Order(FALSE)>> ELSE <<>>

\* The batch: a buy if can_place_buy, then a sell if can_place_sell.
build_orders(pos) ==
  (IF pos + BASE_SIZE <= MAX_POSITION THEN <<Order(TRUE)>> ELSE <<>>)
  \o (IF pos - BASE_SIZE >= -MAX_POSITION THEN <<Order(FALSE)>> ELSE <<>>)

l2book_outcome_no_min_hold(book, lm, lqt, pos, now) ==
  LET mid2 == book.bid + book.ask
  IN  IF ~book.ok THEN "malformed"
      ELSE IF debounce(mid2, lm, lqt, now) THEN "debounced"
      ELSE IF kill_switch(pos) THEN "halted"
      ELSE IF notional_too_small(mid2) THEN "notional"
      ELSE IF build_orders(pos) = <<>> THEN "no_orders"
      ELSE IF DRY_RUN THEN "dry_run"
      ELSE "quote"

\* handle_l2book from the parse to the dry-run check: what becomes of the
\* update.
l2book_outcome(book, lm, lqt, pos, now) ==
  LET mid2 == book.bid + book.ask
  IN  IF ~book.ok THEN "malformed"
      ELSE IF debounce(mid2, lm, lqt, now) THEN "debounced"
      ELSE IF kill_switch(pos) THEN "halted"
      ELSE IF notional_too_small(mid2) THEN "notional"
      ELSE IF build_orders(pos) = <<>> THEN "no_orders"
      ELSE IF now - lqt < MIN_HOLD_SECONDS /\ lqt > 0 THEN "min_hold"
      ELSE IF DRY_RUN THEN "dry_run"
      ELSE "quote"

l2book_outcome_flag_ignored(book, lm, lqt, pos, now) ==
  LET mid2 == book.bid + book.ask
  IN  IF ~book.ok THEN "malformed"
      ELSE IF debounce(mid2, lm, lqt, now) THEN "debounced"
      ELSE IF kill_switch(pos) THEN "halted"
      ELSE IF notional_too_small(mid2) THEN "notional"
      ELSE IF build_orders(pos) = <<>> THEN "no_orders"
      ELSE IF now - lqt < MIN_HOLD_SECONDS /\ lqt > 0 THEN "min_hold"
      ELSE "quote"

\* The same with DRY_RUN = True in the configuration: `if DRY_RUN:` is taken.
l2book_outcome_dry(book, lm, lqt, pos, now) ==
  LET mid2 == book.bid + book.ask
  IN  IF ~book.ok THEN "malformed"
      ELSE IF debounce(mid2, lm, lqt, now) THEN "debounced"
      ELSE IF kill_switch(pos) THEN "halted"
      ELSE IF notional_too_small(mid2) THEN "notional"
      ELSE IF build_orders(pos) = <<>> THEN "no_orders"
      ELSE IF now - lqt < MIN_HOLD_SECONDS /\ lqt > 0 THEN "min_hold"
      ELSE "dry_run"

\* The receive loop is at ws.recv, or a call it awaits is asleep or in a
\* worker thread: the points where the other tasks run and time passes.
RunSuspended ==
  \/ q_pc = "idle" /\ om_pc = "idle"
  \/ om_pc \in {"cancel_sleep", "cancel_call", "place_sleep", "place_call"}

\* An l2Book message arrives: handle_l2book up to its return or, when the
\* update is to be quoted, into cancel_all up to its first suspension.
L2BookWith(book, out) ==
  /\ variant = "enhanced"
  /\ rec_pc \in {"sleep", "query"}
  /\ q_pc = "idle"
  /\ om_pc = "idle"
  /\ q.n < MaxBooks
  /\ LET mid2 == book.bid + book.ask
     IN  /\ price_buffer' = IF book.ok THEN update_price_buffer(price_buffer, clock, mid2)
                            ELSE price_buffer
         /\ q' = [n |-> q.n + 1, outcome |-> out,
                  pos |-> IF out = "quote" THEN position ELSE 0,
                  mid2 |-> IF out = "quote" THEN mid2 ELSE 0,
                  now |-> IF out = "quote" THEN clock ELSE 0,
                  orders |-> IF out = "quote" THEN build_orders(position) ELSE <<>>,
                  placed_at |-> IF out = "dry_run" THEN clock ELSE q.placed_at,
                  halted_before |-> q.halted_before \/ q.outcome = "halted"]
         /\ last_quote_time' = IF out = "dry_run" THEN clock ELSE last_quote_time
         /\ last_mid' = IF out = "dry_run" THEN mid2 ELSE last_mid
         /\ IF out = "quote"
            THEN /\ q_pc' = "cancel"
                 /\ CancelAllBegin
            ELSE /\ q_pc' = "idle"
                 /\ last' = [op |-> "l2Book"]
                 /\ UNCHANGED <<omVars, requests>>
  /\ UNCHANGED <<variant, clock, posVars, fillVars, rl_pc, rl_wake, rl_admitted,
                 cancels_sent, quotes_sent>>

L2Book(book) ==
  L2BookWith(book, l2book_outcome(book, last_mid, last_quote_time, position, clock))

\* What the steps inside cancel_all and place_orders leave alone when
\* handle_l2book awaits them.
L2BookFrame ==
  UNCHANGED <<variant, clock, posVars, price_buffer, fillVars, rl_pc, rl_wake,
              rl_admitted, quoteVars>>

\* cancel_all returned: `self.metrics.cancels_sent += cancelled`, then
\* place_orders(orders) up to its first suspension.
L2BookPlace ==
  /\ q_pc = "cancel"
  /\ om_pc = "cancel_done"
  /\ cancels_sent' = cancels_sent + om.ret
  /\ q_pc' = "place"
  /\ LET r == acquire_enter(requests, clock)
     IN  /\ requests' = r.requests
         /\ om_pc' = IF r.sleep THEN "place_sleep" ELSE "place_call"
         /\ om' = [op |-> "place_orders", batch |-> q.orders, wake |-> r.wake,
                   open_before |-> open_oids, reqs_before |-> requests,
                   reply |-> [kind |-> "nocall", statuses |-> <<>>], ret |-> <<>>]
  /\ last' = [op |-> "place_orders"]
  /\ UNCHANGED <<variant, clock, posVars, price_buffer, fillVars, rl_pc, rl_wake,
                 rl_admitted, open_oids, next_oid, last_mid, last_quote_time, q,
                 quotes_sent>>

record_quote_always(placed, old, new) == new

\* `if placed:` guards `self.last_quote_time = now` and `self.last_mid = mid`.
record_quote(placed, old, new) == IF placed # <<>> THEN new ELSE old

\* place_orders returned: `if placed:` the quote is recorded; handle_l2book
\* returns to the receive loop.
L2BookFinish ==
  /\ q_pc = "place"
  /\ om_pc = "place_done"
  /\ quotes_sent' = quotes_sent + Len(om.ret)
  /\ last_quote_time' = record_quote(om.ret, last_quote_time, q.now)
  /\ last_mid' = record_quote(om.ret, last_mid, q.mid2)
  /\ q_pc' = "idle"
  /\ om_pc' = "idle"
  /\ om' = NoCall
  /\ q' = [q EXCEPT !.pos = 0, !.mid2 = 0, !.now = 0, !.orders = <<>>,
                      !.placed_at = IF om.ret # <<>> THEN clock ELSE @,
                      !.outcome = IF om.ret # <<>> THEN "quoted" ELSE "not_placed"]
  /\ last' = [op |-> "l2Book"]
  /\ UNCHANGED <<variant, clock, posVars, price_buffer, fillVars, rlVars, open_oids,
                 next_oid, cancels_sent>>

(* --------------------- MarketMakerBot.handle_l2book ------------------- *)
\* The account states the VWAP engine is run against: the instrument alone,
\* at the breaker threshold (15 lots) or one lot beyond it on either side.
VwapUserStates ==
  {[has |-> TRUE, assets |-> <<MkAsset(COIN, "num", v)>>] : v \in {-16, 15, 16}}

\* The books the VWAP engine is run with: a missing side, a book around
\* 100001 and one 1000 above it.  A book repeated right after it was
\* processed is within MIN_REQUOTE_MOVE of the reference; the other one is
\* not.
VwapBooks ==
  {MkBook(FALSE, 0, 0), MkBook(TRUE, 100000, 100002), MkBook(TRUE, 101000, 101002)}

small_move_never(mid2, ema) == FALSE

\* `abs(mid_price - self.mid_adj_ema) < MIN_REQUOTE_MOVE` when the reference
\* is not None (mid doubled, reference in 1/40 units).
small_move(mid2, ema) == ema # 0 /\ Abs(20 * mid2 - ema) < 40 * MIN_REQUOTE_MOVE

\* mid_price when None, else SMOOTH_ALPHA * mid_price + (1 - SMOOTH_ALPHA) *
\* self.mid_adj_ema with SMOOTH_ALPHA = 0.35 = 7/20.
smooth(mid2, ema) == IF ema = 0 THEN 20 * mid2 ELSE (7 * 20 * mid2 + 13 * ema) \div 20

\* abs(pos) > MAX_POSITION * CIRCUIT_BREAKER_MULT.
breaker_breach(pos) == 2 * Abs(pos) > VWAP_MAX_POSITION * CIRCUIT_BREAKER_MULT_X2

enabled_sides_swapped(pos) ==
  IF breaker_breach(pos)
  THEN IF pos > 0 THEN [bids |-> TRUE, asks |-> FALSE] ELSE [bids |-> FALSE, asks |-> TRUE]
  ELSE [bids |-> TRUE, asks |-> TRUE]

\* bids_enabled and asks_enabled after the circuit-breaker block.
enabled_sides(pos) ==
  IF breaker_breach(pos)
  THEN IF pos > 0 THEN [bids |-> FALSE, asks |-> TRUE] ELSE [bids |-> TRUE, asks |-> FALSE]
  ELSE [bids |-> TRUE, asks |-> TRUE]

\* `for i in range(1, LEVELS + 1)`: a buy if bids are enabled, then a sell
\* if asks are enabled, per level.
RECURSIVE vwap_build_orders(_, _)
vwap_build_orders(sides, levels) ==
  IF levels = 0 THEN <<>>
  ELSE (IF sides.bids THEN <<Order(TRUE)>> ELSE <<>>)
       \o (IF sides.asks THEN <<Order(FALSE)>> ELSE <<>>)
       \o vwap_build_orders(sides, levels - 1)

\* The receive loop of the VWAP engine is at ws.recv, or a call it awaits
\* is in asyncio.sleep (exchange calls run on the event loop itself).
VwapSuspended ==
  \/ q_pc = "idle" /\ om_pc = "idle"
  \/ om_pc \in {"cancel_sleep", "cancel_delay", "place_sleep"}

\* The UI update at the end of handle_l2book.
ui_update(lr, now) == IF now - lr >= 1 THEN now ELSE lr

\* An l2Book message arrives at the VWAP engine: handle_l2book up to its
\* return or into cancel_all up to its first suspension.
VwapL2BookIn(book, max, dry) ==
  /\ variant = "vwap"
  /\ rec_pc = "sleep"
  /\ q_pc = "idle"
  /\ om_pc = "idle"
  /\ q.n < max
  /\ LET mid2 == book.bid + book.ask
         skipped == ~book.ok \/ small_move(mid2, mid_adj_ema)
         sides == enabled_sides(position)
         orders == vwap_build_orders(sides, LEVELS)
         submit == ~skipped /\ ~dry /\ orders # <<>>
     IN  /\ mid_adj_ema' = IF skipped THEN mid_adj_ema ELSE smooth(mid2, mid_adj_ema)
         /\ circuit_breaker_active' =
              IF skipped THEN circuit_breaker_active ELSE breaker_breach(position)
         /\ q' = [n |-> q.n + 1,
                  outcome |-> IF skipped THEN "skipped"
                              ELSE IF submit THEN "quote" ELSE "dry_run",
                  pos |-> IF skipped THEN 0 ELSE position,
                  orders |-> IF submit THEN orders ELSE <<>>,
                  breaker_before |-> circuit_breaker_active,
                  book |-> book]
         /\ IF submit
            THEN /\ q_pc' = "cancel"
                 /\ CancelAllBegin
                 /\ UNCHANGED last_requote
            ELSE /\ q_pc' = "idle"
                 /\ last_requote' = IF skipped THEN last_requote
                                    ELSE ui_update(last_requote, clock)
                 /\ last' = [op |-> "l2Book"]
                 /\ UNCHANGED <<omVars, requests>>
  /\ UNCHANGED <<variant, clock, posVars, price_buffer, fillVars, rl_pc, rl_wake,
                 rl_admitted, last_mid, last_quote_time, cancels_sent, quotes_sent,
                 runVars>>

VwapL2Book(book) == VwapL2BookIn(book, MaxBooks, VWAP_DRY_RUN)

\* What the steps inside cancel_all and place_orders leave alone when the
\* VWAP engine's handle_l2book awaits them.
VwapFrame ==
  UNCHANGED <<variant, clock, posVars, price_buffer, fillVars, rl_pc, rl_wake,
              rl_admitted, quoteVars, vwapVars, runVars>>

\* cancel_all returned: cancels_sent is raised, then place_orders(orders) up
\* to its first suspension.
VwapPlace ==
  /\ variant = "vwap"
  /\ L2BookPlace
  /\ UNCHANGED <<vwapVars, runVars>>

\* place_orders returned: `if placed_oids: self.metrics.quotes_sent += 1`,
\* the UI update, and handle_l2book returns to the receive loop.
VwapFinish ==
  /\ variant = "vwap"
  /\ q_pc = "place"
  /\ om_pc = "place_done"
  /\ quotes_sent' = IF om.ret # <<>> THEN quotes_sent + 1 ELSE quotes_sent
  /\ last_requote' = ui_update(last_requote, clock)
  /\ q_pc' = "idle"
  /\ om_pc' = "idle"
  /\ om' = NoCall
  /\ q' = [q EXCEPT !.pos = 0, !.orders = <<>>,
                    !.outcome = IF om.ret # <<>> THEN "quoted" ELSE "not_placed"]
  /\ last' = [op |-> "l2Book"]
  /\ UNCHANGED <<variant, clock, posVars, price_buffer, fillVars, rlVars, open_oids,
                 next_oid, cancels_sent, last_mid, last_quote_time, mid_adj_ema,
                 circuit_breaker_active, runVars>>

(* -------------- EnhancedMarketMaker.compute_skewed_spreads ------------ *)
\* Spreads are carried in millionths (BASE_SPREAD_PCT = 0.001 is 1000,
\* MIN_SPREAD_PCT 500, MAX_SPREAD_PCT 20000); the two results are carried
\* multiplied by 2 * MAX_POSITION, which keeps them whole numbers.
SkewSpreads == {500, 1000, 20000}

\* Positions in lots, from one lot beyond -MAX_POSITION to one beyond
\* MAX_POSITION.
SkewPositions == (0 - MAX_POSITION - 1)..(MAX_POSITION + 1)

Min(a, b) == IF a < b THEN a ELSE b

pos_ratio_unclamped(pos) == pos

\* pos_ratio = max(-1.0, min(1.0, pos / MAX_POSITION)), times MAX_POSITION.
pos_ratio(pos) == Max(0 - MAX_POSITION, Min(MAX_POSITION, pos))

\* compute_skewed_spreads(mid, spread_pct, pos) with POSITION_SKEW_FACTOR =
\* 1.5 = 3/2: spread_pct * (1 + 1.5 * max(0, -pos_ratio)) for the bid,
\* spread_pct * (1 + 1.5 * max(0, pos_ratio)) for the ask.
compute_skewed_spreads(spread_pct, pos) ==
  IF pos = 0
  THEN [bid_spread |-> spread_pct * 2 * MAX_POSITION,
        ask_spread |-> spread_pct * 2 * MAX_POSITION]
  ELSE [bid_spread |-> spread_pct * (2 * MAX_POSITION
                                     + POSITION_SKEW_FACTOR_X2 * Max(0, 0 - pos_ratio(pos))),
        ask_spread |-> spread_pct * (2 * MAX_POSITION
                                     + POSITION_SKEW_FACTOR_X2 * Max(0, pos_ratio(pos)))]

\* handle_l2book calls compute_skewed_spreads with the dynamic spread and
\* the position it read.
SkewedSpreads(spread_pct, pos) ==
  /\ variant = "enhanced"
  /\ last' = [op |-> "compute_skewed_spreads", spread_pct |-> spread_pct, pos |-> pos,
              ret |-> compute_skewed_spreads(spread_pct, pos)]
  /\ UNCHANGED <<variant, clock, posVars, price_buffer, fillVars, rlVars, omVars,
                 quoteVars, vwapVars, runVars>>

(* --------------------------- the position gate ------------------------ *)
\* handle_l2book builds its batch for the position it read, on a first book
\* around 100001: the batch and what becomes of the update.
BuildOrders(pos) ==
  /\ variant = "enhanced"
  /\ last' = [op |-> "build_orders", pos |-> pos, orders |-> build_orders(pos),
              outcome |-> l2book_outcome(MkBook(TRUE, 100000, 100002), 0, 0, pos, clock)]
  /\ UNCHANGED <<variant, clock, posVars, price_buffer, fillVars, rlVars, omVars,
                 quoteVars, vwapVars, runVars>>

(* ---------------------------- round_to_tick --------------------------- *)
\* Prices and tick sizes as whole numbers of one common unit (a tenth of a
\* price unit: tick 1.0 is 10, the ETH tick 0.1 is 1).
TickPrices == (0 - MaxTickPrice)..MaxTickPrice
TickSizes == {1, 2, 3, 4, 10}

\* Python's round() of fl + r / d, 0 <= r < d: to the nearest integer, a
\* tie to the even one.
round_parts(fl, r, d) ==
  IF 2 * r < d THEN fl
  ELSE IF 2 * r > d THEN fl + 1
  ELSE IF fl % 2 = 0 THEN fl ELSE fl + 1

\* round() of the quotient n / d, d > 0.
py_round(n, d) == round_parts(n \div d, n % d, d)

round_to_tick_truncates(price, tick_size) == (price \div tick_size) * tick_size

\* round_to_tick: round(price / tick_size) * tick_size.
round_to_tick(price, tick_size) == py_round(price, tick_size) * tick_size

\* round_to_tick is applied to a price, and again to its result.
RoundToTick(price, tick_size) ==
  /\ last' = [op |-> "round_to_tick", price |-> price, tick_size |-> tick_size,
              ret |-> round_to_tick(price, tick_size),
              again |-> round_to_tick(round_to_tick(price, tick_size), tick_size)]
  /\ UNCHANGED <<variant, clock, posVars, price_buffer, fillVars, rlVars, omVars,
                 quoteVars, vwapVars, runVars>>

(* ---------------------------- quote prices ---------------------------- *)
\* 1.0 in the unit of compute_skewed_spreads' results (millionths times
\* 2 * MAX_POSITION).
SpreadScale == 1000000 * 2 * MAX_POSITION

Limb == 10000

\* mid * factor, for the doubled mid and a factor in units of 1 / SpreadScale:
\* mid2 * m / (2 * SpreadScale) as whole part fl and remainder r over
\* 2 * SpreadScale.  The product is formed limb by limb (m = m2 * Limb^2 +
\* m1 * Limb + m0) so that no intermediate value leaves 32 bits.
times_factor(mid2, m) ==
  LET m0 == m % Limb
      m1 == (m \div Limb) % Limb
      m2 == m \div (Limb * Limb)
      t0 == mid2 * m0
      u1 == mid2 * m1 + (t0 \div Limb)
      u2 == mid2 * m2 + (u1 \div Limb)
      low == (u1 % Limb) * Limb + (t0 % Limb)
      k == (2 * SpreadScale) \div (Limb * Limb)
  IN  [fl |-> u2 \div k, r |-> (u2 % k) * Limb * Limb + low]

\* round_to_tick of mid * factor at tick_size TICK_SIZE.
tick_price(mid2, m) ==
  LET p == times_factor(mid2, m)
  IN  round_parts(p.fl \div TICK_SIZE,
                  (p.fl % TICK_SIZE) * 2 * SpreadScale + p.r,
                  TICK_SIZE * 2 * SpreadScale) * TICK_SIZE

quote_prices_inverted(mid2, spreads) ==
  [buy_px |-> tick_price(mid2, SpreadScale + spreads.bid_spread),
   sell_px |-> tick_price(mid2, SpreadScale - spreads.ask_spread)]

\* buy_px = round_to_tick(mid * (1.0 - bid_spread), tick_size),
\* sell_px = round_to_tick(mid * (1.0 + ask_spread), tick_size).
quote_prices(mid2, spreads) ==
  [buy_px |-> tick_price(mid2, SpreadScale - spreads.bid_spread),
   sell_px |-> tick_price(mid2, SpreadScale + spreads.ask_spread)]

\* Doubled mids: 50.5, 49999.5 (both below the minimum notional), 50000,
\* 50000.5, 99999.5, 100000, 100000.5, 101001.
QuoteMids == {101, 99999, 100000, 100001, 199999, 200000, 200001, 202002}

\* Positions in lots: flat, one lot, half way to the stop threshold, at it
\* and just beyond it, long and short.
QuotePositions ==
  {0 - STOP_TRADING_THRESHOLD - 1, 0 - STOP_TRADING_THRESHOLD, -40, -1, 0, 1, 40,
   STOP_TRADING_THRESHOLD, STOP_TRADING_THRESHOLD + 1}

\* The candidate prices of handle_l2book for a mid, the spread of
\* dynamic_spread_pct and the position; submitted tells whether the update
\* passes the kill switch and the notional check.
QuotePrices(mid2, spread_pct, pos) ==
  /\ variant = "enhanced"
  /\ LET spreads == compute_skewed_spreads(spread_pct, pos)
         px == quote_prices(mid2, spreads)
     IN  last' = [op |-> "quote_prices", mid2 |-> mid2, spread_pct |-> spread_pct,
                  pos |-> pos, spreads |-> spreads,
                  buy_px |-> px.buy_px, sell_px |-> px.sell_px,
                  submitted |-> ~kill_switch(pos) /\ ~notional_too_small(mid2)]
  /\ UNCHANGED <<variant, clock, posVars, price_buffer, fillVars, rlVars, omVars,
                 quoteVars, vwapVars, runVars>>

(* -------------------------- compute_volatility ------------------------ *)
\* Python floats are binary floating-point numbers: every arithmetic result
\* is rounded to the nearest number with a fixed count of significant bits
\* (ties to even).  The model keeps that rounding and shortens the
\* significand to MantissaBits bits; the exponent range is not bounded.
\* A float is m * 2^e with m = 0 or 2^(MantissaBits-1) <= |m| < 2^MantissaBits.
RECURSIVE Pow2(_)
Pow2(k) == IF k <= 0 THEN 1 ELSE 2 * Pow2(k - 1)

Float(m, e) == [m |-> m, e |-> e]

FZero == Float(0, 0)

\* The float nearest to (n / d) * 2^e, n > 0, d > 0.
RECURSIVE fl_norm(_, _, _)
fl_norm(n, d, e) ==
  IF n < d * Pow2(MantissaBits - 1) THEN fl_norm(2 * n, d, e - 1)
  ELSE IF n >= d * Pow2(MantissaBits) THEN fl_norm(n, 2 * d, e + 1)
  ELSE LET m == round_parts(n \div d, n % d, d)
       IN  IF m = Pow2(MantissaBits) THEN Float(Pow2(MantissaBits - 1), e + 1)
           ELSE Float(m, e)

\* The float nearest to (n / d) * 2^e, d > 0.
fl(n, d, e) ==
  IF n = 0 THEN FZero
  ELSE IF n > 0 THEN fl_norm(n, d, e)
  ELSE LET r == fl_norm(0 - n, d, e) IN Float(0 - r.m, r.e)

\* a + b, a - b, a * b, a / b (b # 0) and a / n (n a positive int).
fadd(a, b) ==
  LET lo == Min(a.e, b.e)
  IN  fl(a.m * Pow2(a.e - lo) + b.m * Pow2(b.e - lo), 1, lo)

fsub(a, b) == fadd(a, Float(0 - b.m, b.e))

fmul(a, b) == fl(a.m * b.m, 1, a.e + b.e)

fdiv(a, b) ==
  IF b.m > 0 THEN fl(a.m, b.m, a.e - b.e) ELSE fl(0 - a.m, 0 - b.m, a.e - b.e)

\* sum(): the floats added from the left, starting from 0.
RECURSIVE fsum(_)
fsum(xs) == IF xs = <<>> THEN FZero ELSE fadd(fsum(SubSeq(xs, 1, Len(xs) - 1)), xs[Len(xs)])

\* sqrt(a), a >= 0: the significand is widened to an even exponent and
\* 2 * MantissaBits bits or more, its integer root r has MantissaBits + 1
\* bits, and r with the remainder decides the rounding.
fsqrt(a) ==
  IF a.m = 0 THEN FZero
  ELSE LET s == IF (a.e - MantissaBits - 1) % 2 = 0 THEN MantissaBits + 1
                ELSE MantissaBits + 2
           big == a.m * Pow2(s)
           r == CHOOSE x \in 0..Pow2(MantissaBits + 1) : x * x <= big /\ big < (x + 1) * (x + 1)
           rem == big - r * r
           e == ((a.e - s) \div 2) + 1
           m == IF r % 2 = 0 THEN r \div 2
                ELSE IF rem > 0 THEN (r \div 2) + 1
                ELSE IF (r \div 2) % 2 = 0 THEN r \div 2 ELSE (r \div 2) + 1
       IN  IF m = Pow2(MantissaBits) THEN Float(Pow2(MantissaBits - 1), e + 1)
           ELSE Float(m, e)

RECURSIVE squares(_, _)
squares(prices, mean) ==
  IF prices = <<>> THEN <<>>
  ELSE LET d == fsub(Head(prices), mean)
       IN  <<fmul(d, d)>> \o squares(Tail(prices), mean)

\* The mean computed by compute_volatility: sum(prices) / n.
vol_mean(prices) == fl(fsum(prices).m, Len(prices), fsum(prices).e)

\* compute_volatility on the prices of the buffer: the value returned and
\* the buffer it leaves.
compute_volatility(prices) ==
  LET n == Len(prices)
      mean == vol_mean(prices)
      sq == fsum(squares(prices, mean))
      var == fl(sq.m, n, sq.e)
      sigma == fsqrt(var)
  IN  [ret |-> IF n < 3 THEN FZero
               ELSE IF mean.m > 0 THEN fdiv(sigma, mean) ELSE FZero,
       price_buffer |-> prices]

\* Mids as floats: -22, 0, 16 and 22.
VolPrices == {Float(-22, 0), FZero, Float(16, 0), Float(22, 0)}

RECURSIVE SeqsUpTo(_, _)
SeqsUpTo(S, n) ==
  IF n = 0 THEN {<<>>}
  ELSE LET shorter == SeqsUpTo(S, n - 1)
       IN  shorter \cup {Append(w, x) : w \in {v \in shorter : Len(v) = n - 1}, x \in S}

VolWindows == SeqsUpTo(VolPrices, MaxWindow)

\* dynamic_spread_pct asks for the volatility of the buffer.
ComputeVolatility(prices) ==
  /\ variant = "enhanced"
  /\ LET r == compute_volatility(prices)
     IN  last' = [op |-> "compute_volatility", window |-> prices, ret |-> r.ret,
                  window_after |-> r.price_buffer]
  /\ UNCHANGED <<variant, clock, posVars, price_buffer, fillVars, rlVars, omVars,
                 quoteVars, vwapVars, runVars>>

(* --------------------------------- vwap ------------------------------- *)
\* A book level: a dict whose 'px' and 'sz' parse as floats ("ok"), or
\* something else (not a dict, or a size that float() rejects).
Level(kind, px, sz) == [kind |-> kind, px |-> px, sz |-> sz]

\* Prices 16 and 22 with size 3, 22 with size -3, 16 with size 0, and two
\* malformed levels.
VwapLevels ==
  {Level("ok", Float(16, 0), Float(24, -3)), Level("ok", Float(22, 0), Float(24, -3)),
   Level("ok", Float(22, 0), Float(-24, -3)), Level("ok", Float(16, 0), FZero),
   Level("not_dict", FZero, FZero), Level("bad_sz", Float(16, 0), FZero)}

VwapLevelLists == SeqsUpTo(VwapLevels, MaxLevels)

VwapFallback == Float(28, 0)

\* The loop of vwap over levels[:n]: the pair (total_px_vol, total_vol).
RECURSIVE vwap_totals(_)
vwap_totals(levels) ==
  IF levels = <<>> THEN [px_vol |-> FZero, vol |-> FZero]
  ELSE LET t == vwap_totals(SubSeq(levels, 1, Len(levels) - 1))
           level == levels[Len(levels)]
       IN  IF level.kind # "ok" THEN t
           ELSE [px_vol |-> fadd(t.px_vol, fmul(level.px, level.sz)),
                 vol |-> fadd(t.vol, level.sz)]

\* vwap(levels, n, fallback).
vwap(levels, n, fallback) ==
  LET t == vwap_totals(SubSeq(levels, 1, Min(n, Len(levels))))
  IN  IF levels = <<>> THEN fallback
      ELSE IF t.vol.m > 0 THEN fdiv(t.px_vol, t.vol) ELSE fallback

\* handle_l2book asks for the VWAP of one side of the book.
Vwap(levels, n) ==
  /\ variant = "vwap"
  /\ last' = [op |-> "vwap", levels |-> levels, n |-> n, fallback |-> VwapFallback,
              ret |-> vwap(levels, n, VwapFallback)]
  /\ UNCHANGED <<variant, clock, posVars, price_buffer, fillVars, rlVars, omVars,
                 quoteVars, vwapVars, runVars>>

(* ----------------------- EnhancedMarketMaker.run ---------------------- *)
AuxTasks == {"healthcheck", "metrics"}

\* The account state and the messages run() is exercised with: 80 lots held,
\* one book that passes every gate, one live fill.
RunUserState == [has |-> TRUE, assets |-> <<MkAsset(COIN, "num", 80)>>]
RunBook == MkBook(TRUE, 100000, 100002)
RunFills ==
  [kind |-> "dict", isSnapshot |-> FALSE,
   fills |-> <<MkFill(TRUE, COIN, "B", "num", 1, "num", 100, FALSE)>>]
Channels == {"l2Book", "userFills"}

loop_top_ignores_retries(stop, retries) == IF ~stop THEN "connecting" ELSE "shutdown"

\* `while not self.stop_event.is_set() and retry_count < MAX_RECONNECT_ATTEMPTS`:
\* into websockets.connect, or past the loop.
loop_top(stop, retries) ==
  IF ~stop /\ retries < MAX_RECONNECT_ATTEMPTS THEN "connecting" ELSE "shutdown"

\* `while not self.stop_event.is_set()` of the receive loop, after a handler
\* returned or ws.recv timed out: back to ws.recv, or out of the connection
\* and (the stop being set) past the outer loop.
inner_loop(stop) == IF stop THEN "shutdown" ELSE "recv"

recv_ready_always(qpc, ompc) == TRUE

\* The receive loop is at `await ws.recv()`: no handler it awaits is running.
recv_ready(qpc, ompc) == qpc = "idle" /\ ompc = "idle"

\* run() is suspended: in websockets.connect, at ws.recv, in the backoff
\* sleep, or in a limiter sleep or worker thread of a call it awaits.  Only
\* then do the other tasks run and does time pass.
MainSuspended ==
  \/ sup_pc \in {"connecting", "backoff"}
  \/ sup_pc = "recv" /\ q_pc = "idle" /\ om_pc = "idle"
  \/ om_pc \in {"cancel_sleep", "cancel_call", "place_sleep", "place_call"}

\* What the steps of run() that do not touch the engine's data leave alone.
RunFrame ==
  UNCHANGED <<variant, clock, posVars, price_buffer, fillVars, rl_pc, rl_wake,
              rl_admitted, quoteVars, vwapVars>>

\* SIGINT or SIGTERM: the signal handler sets the stop event.
Stop ==
  /\ ~stop_event
  /\ sup_pc # "returned"
  /\ stop_event' = TRUE
  /\ UNCHANGED <<variant, clock, posVars, price_buffer, fillVars, rlVars, omVars,
                 quoteVars, vwapVars, last, sup_pc, retry_count, reconnect_delay,
                 hb_pc, aux_pc, rec_exited, inbox, arrived, handled, fails_in_row,
                 final_cancels>>

\* run() up to the outer loop: the first update_from_api, the three
\* background tasks are created.
RunStartup(ok) ==
  /\ variant = "enhanced"
  /\ sup_pc = "startup"
  /\ StartupReconcile(RunUserState, ok)
  /\ aux_pc' = [t \in AuxTasks |-> "sleep"]
  /\ sup_pc' = loop_top(stop_event, retry_count)
  /\ UNCHANGED <<vwapVars, stop_event, retry_count, reconnect_delay, hb_pc,
                 rec_exited, inbox, arrived, handled, fails_in_row, final_cancels>>

\* websockets.connect returns.  Connected: the counters are reset, the
\* subscriptions go out, the heartbeat task is created and the receive loop
\* is entered (or, the stop being set, left at once and the heartbeat task
\* cancelled).  Failed: the `except Exception` branch begins its cancel_all.
Connect(ok) ==
  /\ sup_pc = "connecting"
  /\ IF ok
     THEN /\ retry_count' = 0
          /\ reconnect_delay' = 1
          /\ fails_in_row' = 0
          /\ hb_pc' = IF stop_event THEN "none" ELSE "sleep"
          /\ sup_pc' = inner_loop(stop_event)
          /\ inbox' = <<>>
          /\ last' = [op |-> "run"]
          /\ UNCHANGED <<omVars, requests>>
     ELSE /\ fails_in_row' = fails_in_row + 1
          /\ sup_pc' = "closing"
          /\ CancelAllBegin
          /\ UNCHANGED <<retry_count, reconnect_delay, hb_pc, inbox>>
  /\ UNCHANGED <<variant, clock, posVars, price_buffer, fillVars, rl_pc, rl_wake,
                 rl_admitted, quoteVars, vwapVars, stop_event, aux_pc, rec_exited,
                 arrived, handled, final_cancels>>

\* The exchange sends a message on a subscribed channel.
Arrive(channel) ==
  /\ sup_pc = "recv"
  /\ arrived < MaxBooks
  /\ arrived' = arrived + 1
  /\ inbox' = Append(inbox, [id |-> arrived + 1, channel |-> channel])
  /\ RunFrame
  /\ UNCHANGED <<rlVars, omVars, last, stop_event, sup_pc, retry_count,
                 reconnect_delay, hb_pc, aux_pc, rec_exited, handled, fails_in_row,
                 final_cancels>>

\* ws.recv returns the oldest message, an l2Book: `await
\* self.handle_l2book(...)` up to its return or to its first suspension.
RunL2Book ==
  /\ sup_pc = "recv"
  /\ recv_ready(q_pc, om_pc)
  /\ inbox # <<>>
  /\ Head(inbox).channel = "l2Book"
  /\ L2Book(RunBook)
  /\ inbox' = Tail(inbox)
  /\ handled' = Head(inbox).id
  /\ sup_pc' = IF q_pc' = "idle" THEN inner_loop(stop_event) ELSE sup_pc
  /\ hb_pc' = IF q_pc' = "idle" /\ stop_event THEN "none" ELSE hb_pc
  /\ UNCHANGED <<vwapVars, stop_event, retry_count, reconnect_delay, aux_pc,
                 rec_exited, arrived, fails_in_row, final_cancels>>

\* handle_l2book, between cancel_all and place_orders.
RunL2BookPlace ==
  /\ sup_pc = "recv"
  /\ L2BookPlace
  /\ UNCHANGED <<vwapVars, runVars>>

\* handle_l2book returns; the receive loop tests the stop event.
RunL2BookFinish ==
  /\ sup_pc = "recv"
  /\ L2BookFinish
  /\ sup_pc' = inner_loop(stop_event)
  /\ hb_pc' = IF stop_event THEN "none" ELSE hb_pc
  /\ UNCHANGED <<vwapVars, stop_event, retry_count, reconnect_delay, aux_pc,
                 rec_exited, inbox, arrived, handled, fails_in_row, final_cancels>>

\* ws.recv returns the oldest message, a userFills: every fill of it is
\* handled; the receive loop tests the stop event.
RunUserFills ==
  /\ variant = "enhanced"
  /\ sup_pc = "recv"
  /\ recv_ready(q_pc, om_pc)
  /\ inbox # <<>>
  /\ Head(inbox).channel = "userFills"
  /\ RecvUserFills(RunFills)
  /\ inbox' = Tail(inbox)
  /\ handled' = Head(inbox).id
  /\ sup_pc' = inner_loop(stop_event)
  /\ hb_pc' = IF stop_event THEN "none" ELSE hb_pc
  /\ UNCHANGED <<vwapVars, stop_event, retry_count, reconnect_delay, aux_pc,
                 rec_exited, arrived, fails_in_row, final_cancels>>

\* wait_for(ws.recv(), INTERVAL) times out with the stop event set: the
\* receive loop ends, the heartbeat task is cancelled.  (With the stop
\* event clear the loop is back at ws.recv with nothing changed.)
RecvTimeout ==
  /\ sup_pc = "recv"
  /\ q_pc = "idle" /\ om_pc = "idle"
  /\ inbox = <<>>
  /\ stop_event
  /\ sup_pc' = "shutdown"
  /\ hb_pc' = "none"
  /\ last' = [op |-> "run"]
  /\ RunFrame
  /\ UNCHANGED <<rlVars, omVars, stop_event, retry_count, reconnect_delay, aux_pc,
                 rec_exited, inbox, arrived, handled, fails_in_row, final_cancels>>

\* ws.recv raises.  ConnectionClosedError: `break`, the heartbeat task is
\* cancelled and the outer loop goes round.  Any other exception leaves
\* the `async with` for the `except Exception` branch, which begins its
\* cancel_all; the heartbeat task is not cancelled there.
RecvRaises(closed_error) ==
  /\ sup_pc = "recv"
  /\ q_pc = "idle" /\ om_pc = "idle"
  /\ inbox' = <<>>
  /\ IF closed_error
     THEN /\ sup_pc' = loop_top(stop_event, retry_count)
          /\ hb_pc' = "none"
          /\ last' = [op |-> "run"]
          /\ UNCHANGED <<omVars, requests>>
     ELSE /\ sup_pc' = "closing"
          /\ CancelAllBegin
          /\ UNCHANGED hb_pc
  /\ RunFrame
  /\ UNCHANGED <<rl_pc, rl_wake, rl_admitted, stop_event, retry_count,
                 reconnect_delay, aux_pc, rec_exited, arrived, handled, fails_in_row,
                 final_cancels>>

\* The cancel_all of the `except Exception` branch returned: retry_count is
\* raised and the backoff sleep begins.
ClosingDone ==
  /\ sup_pc = "closing"
  /\ om_pc = "cancel_done"
  /\ om_pc' = "idle"
  /\ om' = NoCall
  /\ retry_count' = retry_count + 1
  /\ sup_pc' = "backoff"
  /\ last' = [op |-> "run"]
  /\ RunFrame
  /\ UNCHANGED <<rlVars, open_oids, next_oid, stop_event, reconnect_delay, hb_pc,
                 aux_pc, rec_exited, inbox, arrived, handled, fails_in_row,
                 final_cancels>>

next_delay_uncapped(delay) == delay * 2

\* reconnect_delay = min(reconnect_delay * 2, 30).
next_delay(delay) == Min(delay * 2, MAX_RECONNECT_DELAY)

\* The backoff sleep ends: the delay is doubled up to its cap and the outer
\* loop goes round.
BackoffEnd ==
  /\ sup_pc = "backoff"
  /\ reconnect_delay' = next_delay(reconnect_delay)
  /\ sup_pc' = loop_top(stop_event, retry_count)
  /\ RunFrame
  /\ UNCHANGED <<rlVars, omVars, last, stop_event, retry_count, hb_pc, aux_pc,
                 rec_exited, inbox, arrived, handled, fails_in_row, final_cancels>>

\* Past the outer loop: the three background tasks are cancelled and
\* gathered, then the final cancel_all begins.
Shutdown ==
  /\ sup_pc = "shutdown"
  /\ rec_exited' = TRUE
  /\ rec_pc' = "sleep"
  /\ aux_pc' = [t \in AuxTasks |-> "exited"]
  /\ sup_pc' = "final_cancel"
  /\ final_cancels' = final_cancels + 1
  /\ CancelAllBegin
  /\ UNCHANGED <<variant, clock, position, recon_value, buys_since, sells_since,
                 only_valid, inflight, price_buffer, fillVars, rl_pc, rl_wake,
                 rl_admitted, quoteVars, vwapVars, stop_event, retry_count,
                 reconnect_delay, hb_pc, inbox, arrived, handled, fails_in_row>>

\* The final cancel_all returned: cancels_sent is raised, the metrics and
\* the fills are saved, run() returns.
FinalDone ==
  /\ sup_pc = "final_cancel"
  /\ om_pc = "cancel_done"
  /\ cancels_sent' = cancels_sent + om.ret
  /\ om_pc' = "idle"
  /\ om' = NoCall
  /\ sup_pc' = "returned"
  /\ last' = [op |-> "returned"]
  /\ UNCHANGED <<variant, clock, posVars, price_buffer, fillVars, rlVars, open_oids,
                 next_oid, last_mid, last_quote_time, q_pc, q, quotes_sent, vwapVars,
                 stop_event, retry_count, reconnect_delay, hb_pc, aux_pc, rec_exited,
                 inbox, arrived, handled, fails_in_row, final_cancels>>

\* reconcile_loop: the sleep ends and the query goes to a thread ...
RunReconcileStart ==
  /\ sup_pc \notin {"startup", "returned"}
  /\ ~rec_exited
  /\ MainSuspended
  /\ ReconcileStart
  /\ UNCHANGED <<vwapVars, runVars>>

\* ... and returns or raises; the loop tests the stop event.
RunReconcileReturn(ok) ==
  /\ ~rec_exited
  /\ MainSuspended
  /\ ReconcileReturn(RunUserState, ok)
  /\ rec_exited' = stop_event
  /\ UNCHANGED <<vwapVars, stop_event, sup_pc, retry_count, reconnect_delay, hb_pc,
                 aux_pc, inbox, arrived, handled, fails_in_row, final_cancels>>

\* healthcheck_loop, metrics_loop: the sleep ends, the task logs and tests
\* the stop event.  (With the stop event clear it is back at its sleep
\* with nothing changed.)
AuxWake(t) ==
  /\ aux_pc[t] = "sleep"
  /\ MainSuspended
  /\ stop_event
  /\ aux_pc' = [aux_pc EXCEPT ![t] = "exited"]
  /\ RunFrame
  /\ UNCHANGED <<rlVars, omVars, last, stop_event, sup_pc, retry_count,
                 reconnect_delay, hb_pc, rec_exited, inbox, arrived, handled,
                 fails_in_row, final_cancels>>

heartbeat_after_ping_retries(ok, stop) == IF stop THEN "exited" ELSE "sleep"

\* heartbeat_loop after `await ws.ping()`: an exception is logged and
\* `break`s; otherwise the loop tests the stop event.
heartbeat_after_ping(ok, stop) == IF ~ok \/ stop THEN "exited" ELSE "sleep"

\* heartbeat_loop: the sleep ends and the ping returns or raises.
HeartbeatPing(ok) ==
  /\ hb_pc = "sleep"
  /\ MainSuspended
  /\ hb_pc' = heartbeat_after_ping(ok, stop_event)
  /\ RunFrame
  /\ UNCHANGED <<rlVars, omVars, last, stop_event, sup_pc, retry_count, reconnect_delay,
                 aux_pc, rec_exited, inbox, arrived, handled, fails_in_row,
                 final_cancels>>

\* What a step inside cancel_all or place_orders leaves alone in run().
RunOMFrame == L2BookFrame /\ UNCHANGED <<vwapVars, runVars>>

(* --------------------------- specifications --------------------------- *)
Init ==
  /\ variant \in Variants
  /\ clock = 1
  /\ position = 0
  /\ rec_pc = "init"
  /\ price_buffer = <<>>
  /\ fill_records = <<>>
  /\ fills_received = 0
  /\ last_fill_time = 0
  /\ total_pnl = 0
  /\ last = [op |-> "init"]
  /\ recon_value = 0
  /\ buys_since = 0
  /\ sells_since = 0
  /\ only_valid = TRUE
  /\ nfills = 0
  /\ inflight = 0
  /\ requests = <<>>
  /\ rl_pc = [c \in Callers |-> "idle"]
  /\ rl_wake = [c \in Callers |-> 0]
  /\ rl_admitted = <<>>
  /\ open_oids = {}
  /\ om_pc = "idle"
  /\ om = NoCall
  /\ next_oid = 1
  /\ last_mid = 0
  /\ last_quote_time = 0
  /\ q_pc = "idle"
  /\ q = NoBook
  /\ cancels_sent = 0
  /\ quotes_sent = 0
  /\ mid_adj_ema = 0
  /\ circuit_breaker_active = FALSE
  /\ last_requote = 0
  /\ stop_event = FALSE
  /\ sup_pc = "startup"
  /\ retry_count = 0
  /\ reconnect_delay = 1
  /\ hb_pc = "none"
  /\ aux_pc = [t \in AuxTasks |-> "none"]
  /\ rec_exited = FALSE
  /\ inbox = <<>>
  /\ arrived = 0
  /\ handled = 0
  /\ fails_in_row = 0
  /\ final_cancels = 0

\* Position tracking: fills from the stream against the reconciliation task.
NextPos ==
  \/ \E us \in UserStates, ok \in BOOLEAN : StartupReconcile(us, ok) /\ UNCHANGED <<vwapVars, runVars>>
  \/ ReconcileStart /\ UNCHANGED <<vwapVars, runVars>>
  \/ \E us \in UserStates, ok \in BOOLEAN : ReconcileReturn(us, ok) /\ UNCHANGED <<vwapVars, runVars>>
  \/ \E us \in UserStates, ok \in BOOLEAN : ReconcileSync(us, ok) /\ UNCHANGED <<vwapVars, runVars>>
  \/ \E data \in FillsData : RecvUserFills(data) /\ UNCHANGED <<vwapVars, runVars>>

SpecPos == Init /\ [][NextPos]_vars

\* RateLimiter.acquire under concurrent callers.
NextRL ==
  \/ \E c \in Callers : RLAcquire(c) /\ UNCHANGED <<vwapVars, runVars>>
  \/ \E c \in Callers : RLWake(c) /\ UNCHANGED <<vwapVars, runVars>>
  \/ Tick /\ UNCHANGED <<vwapVars, runVars>>

SpecRL == Init /\ [][NextRL]_vars

\* OrderManager driven by one task (run() and the handlers it awaits), one
\* call at a time, against an exchange that answers as it likes.
NextOM ==
  \/ CancelAllBegin /\ OMFrame /\ UNCHANGED <<vwapVars, runVars>>
  \/ CancelNext /\ OMFrame /\ UNCHANGED <<vwapVars, runVars>>
  \/ CancelWake /\ OMFrame /\ UNCHANGED <<vwapVars, runVars>>
  \/ \E reply \in CancelReplies : CancelReply(reply) /\ OMFrame /\ UNCHANGED <<vwapVars, runVars>>
  \/ CancelDelayEnd /\ OMFrame /\ UNCHANGED <<vwapVars, runVars>>
  \/ \E batch \in Batches : PlaceBegin(batch) /\ OMFrame /\ UNCHANGED <<vwapVars, runVars>>
  \/ PlaceWake /\ OMFrame /\ UNCHANGED <<vwapVars, runVars>>
  \/ PlaceReply /\ OMFrame /\ UNCHANGED <<vwapVars, runVars>>
  \/ OMReturn /\ OMFrame /\ UNCHANGED <<vwapVars, runVars>>
  \/ Tick /\ UNCHANGED <<vwapVars, runVars>>

SpecOM == Init /\ [][NextOM]_vars

\* The enhanced engine quoting: book updates on the receive loop, the
\* reconciliation task beside it changing the position.
NextQuote ==
  \/ variant = "enhanced" /\ \E us \in QuoteUserStates : StartupReconcile(us, TRUE) /\ UNCHANGED <<vwapVars, runVars>>
  \/ variant = "enhanced" /\ RunSuspended /\ ReconcileStart /\ UNCHANGED <<vwapVars, runVars>>
  \/ RunSuspended /\ \E us \in QuoteUserStates : ReconcileReturn(us, TRUE) /\ UNCHANGED <<vwapVars, runVars>>
  \/ \E book \in Books : L2Book(book) /\ UNCHANGED <<vwapVars, runVars>>
  \/ q_pc = "cancel" /\ CancelNext /\ L2BookFrame /\ UNCHANGED <<vwapVars, runVars>>
  \/ q_pc = "cancel" /\ CancelWake /\ L2BookFrame /\ UNCHANGED <<vwapVars, runVars>>
  \/ q_pc = "cancel" /\ \E reply \in CancelReplies : CancelReply(reply) /\ L2BookFrame /\ UNCHANGED <<vwapVars, runVars>>
  \/ L2BookPlace /\ UNCHANGED <<vwapVars, runVars>>
  \/ q_pc = "place" /\ PlaceWake /\ L2BookFrame /\ UNCHANGED <<vwapVars, runVars>>
  \/ q_pc = "place" /\ PlaceReply /\ L2BookFrame /\ UNCHANGED <<vwapVars, runVars>>
  \/ L2BookFinish /\ UNCHANGED <<vwapVars, runVars>>
  \/ RunSuspended /\ Tick /\ UNCHANGED <<vwapVars, runVars>>

SpecQuote == Init /\ [][NextQuote]_vars

\* The account state the fill ledger is run against: flat in the instrument.
LedgerUserState == [has |-> TRUE, assets |-> <<MkAsset(COIN, "num", 0)>>]

\* Books whose one lot is worth less than MIN_ORDER_NOTIONAL: they feed the
\* price window and end at a gate of handle_l2book.
LedgerBooks == {MkBook(TRUE, 100, 102), MkBook(TRUE, 98, 100)}

\* The userFills messages the ledger is run with: the dict envelope.
LedgerData == {d \in FillsData : d.kind = "dict"}

\* The enhanced engine's fill ledger: book updates and userFills messages
\* in any order on the receive loop, all within one clock unit (the ledger
\* reads the newest entry of the price window whatever its age).
NextLedger ==
  \/ variant = "enhanced" /\ StartupReconcile(LedgerUserState, TRUE) /\ UNCHANGED <<vwapVars, runVars>>
  \/ variant = "enhanced" /\ \E data \in LedgerData : RecvUserFills(data) /\ UNCHANGED <<vwapVars, runVars>>
  \/ \E book \in LedgerBooks : L2Book(book) /\ UNCHANGED <<vwapVars, runVars>>

SpecLedger == Init /\ [][NextLedger]_vars

\* The VWAP engine quoting: book updates on the receive loop, the
\* reconciliation task beside it changing the position.
NextVwap ==
  \/ variant = "vwap" /\ \E us \in VwapUserStates : StartupReconcile(us, TRUE)
       /\ UNCHANGED <<vwapVars, runVars>>
  \/ VwapSuspended /\ \E us \in VwapUserStates : ReconcileSync(us, TRUE)
       /\ UNCHANGED <<vwapVars, runVars>>
  \/ \E book \in VwapBooks : VwapL2Book(book)
  \/ variant = "vwap" /\ q_pc = "cancel" /\ CancelNext /\ VwapFrame
  \/ variant = "vwap" /\ q_pc = "cancel" /\ CancelWake /\ VwapFrame
  \/ variant = "vwap" /\ q_pc = "cancel"
       /\ \E reply \in CancelReplies : CancelReply(reply) /\ VwapFrame
  \/ variant = "vwap" /\ q_pc = "cancel" /\ CancelDelayEnd /\ VwapFrame
  \/ VwapPlace
  \/ variant = "vwap" /\ q_pc = "place" /\ PlaceWake /\ VwapFrame
  \/ variant = "vwap" /\ q_pc = "place" /\ PlaceReply /\ VwapFrame
  \/ VwapFinish
  \/ variant = "vwap" /\ VwapSuspended /\ Tick /\ UNCHANGED <<vwapVars, runVars>>

SpecVwap == Init /\ [][NextVwap]_vars

\* The receive loop of the enhanced engine on connections that are
\* established at the first attempt: the handlers, the heartbeat and
\* reconciliation tasks beside them, the stop signal, and the shutdown path.
NextRun ==
  \/ Stop
  \/ RunStartup(TRUE)
  \/ Connect(TRUE)
  \/ \E channel \in Channels : Arrive(channel)
  \/ RunL2Book
  \/ RunL2BookPlace
  \/ RunL2BookFinish
  \/ RunUserFills
  \/ RecvTimeout
  \/ RecvRaises(TRUE)
  \/ sup_pc # "startup" /\ CancelNext /\ RunOMFrame
  \/ sup_pc # "startup" /\ CancelWake /\ RunOMFrame
  \/ sup_pc # "startup" /\ \E reply \in CancelReplies : CancelReply(reply) /\ RunOMFrame
  \/ sup_pc # "startup" /\ PlaceWake /\ RunOMFrame
  \/ sup_pc # "startup" /\ PlaceReply /\ RunOMFrame
  \/ Shutdown
  \/ FinalDone
  \/ RunReconcileStart
  \/ RunReconcileReturn(TRUE)
  \/ \E ok \in BOOLEAN : HeartbeatPing(ok)
  \/ sup_pc # "startup" /\ MainSuspended /\ Tick /\ UNCHANGED <<vwapVars, runVars>>

SpecRun == Init /\ [][NextRun]_vars

\* The supervisor of the enhanced engine on a stream that delivers no
\* message: connection attempts that succeed or fail, connections that
\* break, the backoff, the heartbeat, healthcheck and metrics tasks, the
\* stop signal, and the shutdown path.
NextSup ==
  \/ Stop
  \/ \E ok \in BOOLEAN : RunStartup(ok)
  \/ \E ok \in BOOLEAN : Connect(ok)
  \/ RecvTimeout
  \/ \E closed_error \in BOOLEAN : RecvRaises(closed_error)
  \/ ClosingDone
  \/ BackoffEnd
  \/ Shutdown
  \/ FinalDone
  \/ \E t \in AuxTasks : AuxWake(t)
  \/ \E ok \in BOOLEAN : HeartbeatPing(ok)

SpecSup == Init /\ [][NextSup]_vars

\* compute_skewed_spreads over its inputs.
NextSkew ==
  \E spread_pct \in SkewSpreads, pos \in SkewPositions : SkewedSpreads(spread_pct, pos)

SpecSkew == Init /\ [][NextSkew]_vars

\* The position gate over positions from below -MAX_POSITION to above it.
NextGate == \E pos \in SkewPositions : BuildOrders(pos)

SpecGate == Init /\ [][NextGate]_vars

\* round_to_tick over its inputs.
NextTick ==
  \E price \in TickPrices, tick_size \in TickSizes : RoundToTick(price, tick_size)

SpecTick == Init /\ [][NextTick]_vars

\* The quote prices over mids, spreads and positions.
NextPrice ==
  \E mid2 \in QuoteMids, spread_pct \in SkewSpreads, pos \in QuotePositions :
    QuotePrices(mid2, spread_pct, pos)

SpecPrice == Init /\ [][NextPrice]_vars

\* compute_volatility over price windows.
NextVol == \E prices \in VolWindows : ComputeVolatility(prices)

SpecVol == Init /\ [][NextVol]_vars

\* vwap over level lists, with n below and at the length of the longest.
NextVwapFn == \E levels \in VwapLevelLists, n \in 2..MaxLevels : Vwap(levels, n)

SpecVwapFn == Init /\ [][NextVwapFn]_vars

\* The clock of the ledger's runs reaches one unit past the age at which a
\* first sample leaves the window.
WindowMaxClock == 5

\* time.time() moves on between two messages.
WindowTick ==
  /\ clock < WindowMaxClock
  /\ clock' = clock + 1
  /\ UNCHANGED <<variant, posVars, price_buffer, fillVars, rlVars, omVars, quoteVars,
                 last>>

\* The enhanced engine's price window and its two readers: book updates
\* (update_price_buffer, compute_volatility) and userFills messages
\* (get_latest_mid) in any order on the receive loop, with time passing
\* between them.
NextWindow ==
  \/ variant = "enhanced" /\ StartupReconcile(LedgerUserState, TRUE) /\ UNCHANGED <<vwapVars, runVars>>
  \/ variant = "enhanced" /\ \E data \in LedgerData : RecvUserFills(data) /\ UNCHANGED <<vwapVars, runVars>>
  \/ \E book \in LedgerBooks : L2Book(book) /\ UNCHANGED <<vwapVars, runVars>>
  \/ variant = "enhanced" /\ WindowTick /\ UNCHANGED <<vwapVars, runVars>>

SpecWindow == Init /\ [][NextWindow]_vars

\* A websocket frame as the receive loop sees it: whether json.loads
\* accepts it, whether the result is a dict, its "channel", whether its
\* "data" is truthy, and the book its data holds.
MkFrame(json, isdict, channel, has_data, book) ==
  [json |-> json, isdict |-> isdict, channel |-> channel, has_data |-> has_data,
   book |-> book]

\* Text that is not JSON, a JSON array, a subscription acknowledgement, an
\* l2Book without data, an l2Book with a missing or unparsable side, a
\* well-formed l2Book and a userFills message.
Frames ==
  {MkFrame(FALSE, FALSE, "none", FALSE, MkBook(FALSE, 0, 0)),
   MkFrame(TRUE, FALSE, "none", FALSE, MkBook(FALSE, 0, 0)),
   MkFrame(TRUE, TRUE, "subscriptionResponse", TRUE, RunBook),
   MkFrame(TRUE, TRUE, "l2Book", FALSE, MkBook(FALSE, 0, 0)),
   MkFrame(TRUE, TRUE, "l2Book", TRUE, MkBook(FALSE, 0, 0)),
   MkFrame(TRUE, TRUE, "l2Book", TRUE, RunBook),
   MkFrame(TRUE, TRUE, "userFills", TRUE, MkBook(FALSE, 0, 0))}

route_any_data_to_book(f) ==
  IF ~f.json THEN "skip"
  ELSE IF ~f.isdict THEN "skip"
  ELSE IF f.has_data /\ f.channel # "userFills" THEN "l2Book"
  ELSE IF f.channel = "userFills" /\ f.has_data THEN "userFills"
  ELSE "skip"

\* The dispatch of the receive loop: json.loads, isinstance(data, dict),
\* `channel == "l2Book" and data.get("data")`, `channel == "userFills" and
\* data.get("data")`; everything else goes round the loop.
route(f) ==
  IF ~f.json THEN "skip"
  ELSE IF ~f.isdict THEN "skip"
  ELSE IF f.channel = "l2Book" /\ f.has_data THEN "l2Book"
  ELSE IF f.channel = "userFills" /\ f.has_data THEN "userFills"
  ELSE "skip"

\* The exchange, or anything else on the socket, sends a frame.
ArriveFrame(f) ==
  /\ sup_pc = "recv"
  /\ arrived < MaxBooks
  /\ arrived' = arrived + 1
  /\ inbox' = Append(inbox, [id |-> arrived + 1, channel |-> route(f), frame |-> f])
  /\ RunFrame
  /\ UNCHANGED <<rlVars, omVars, last, stop_event, sup_pc, retry_count,
                 reconnect_delay, hb_pc, aux_pc, rec_exited, handled, fails_in_row,
                 final_cancels>>

\* ws.recv returns a frame with an l2Book: `await self.handle_l2book(...)`
\* on the book it holds, up to its return or to its first suspension.
RecvL2Book ==
  /\ sup_pc = "recv"
  /\ recv_ready(q_pc, om_pc)
  /\ inbox # <<>>
  /\ Head(inbox).channel = "l2Book"
  /\ L2Book(Head(inbox).frame.book)
  /\ inbox' = Tail(inbox)
  /\ handled' = Head(inbox).id
  /\ sup_pc' = IF q_pc' = "idle" THEN inner_loop(stop_event) ELSE sup_pc
  /\ hb_pc' = IF q_pc' = "idle" /\ stop_event THEN "none" ELSE hb_pc
  /\ UNCHANGED <<vwapVars, stop_event, retry_count, reconnect_delay, aux_pc,
                 rec_exited, arrived, fails_in_row, final_cancels>>

\* ws.recv returns a frame the dispatch has no handler for: `continue`.
RecvSkip ==
  /\ variant = "enhanced"
  /\ sup_pc = "recv"
  /\ recv_ready(q_pc, om_pc)
  /\ inbox # <<>>
  /\ Head(inbox).channel = "skip"
  /\ inbox' = Tail(inbox)
  /\ handled' = Head(inbox).id
  /\ sup_pc' = inner_loop(stop_event)
  /\ hb_pc' = IF stop_event THEN "none" ELSE hb_pc
  /\ last' = [op |-> "skip"]
  /\ RunFrame
  /\ UNCHANGED <<rlVars, omVars, stop_event, retry_count, reconnect_delay, aux_pc,
                 rec_exited, arrived, fails_in_row, final_cancels>>

\* wait_for(ws.recv(), INTERVAL) times out with the stop event clear:
\* `except asyncio.TimeoutError: continue`.
RecvTimeoutContinue ==
  /\ sup_pc = "recv"
  /\ q_pc = "idle" /\ om_pc = "idle"
  /\ inbox = <<>>
  /\ ~stop_event
  /\ sup_pc' = inner_loop(stop_event)
  /\ last' = [op |-> "timeout"]
  /\ RunFrame
  /\ UNCHANGED <<rlVars, omVars, stop_event, retry_count, reconnect_delay, hb_pc,
                 aux_pc, rec_exited, inbox, arrived, handled, fails_in_row,
                 final_cancels>>

\* The receive loop of the enhanced engine on a stream that carries, beside
\* book updates and fills, frames the engine has no use for.
NextNoise ==
  \/ Stop
  \/ RunStartup(TRUE)
  \/ Connect(TRUE)
  \/ \E f \in Frames : ArriveFrame(f)
  \/ RecvL2Book
  \/ RunL2BookPlace
  \/ RunL2BookFinish
  \/ RunUserFills
  \/ RecvSkip
  \/ RecvTimeout
  \/ RecvTimeoutContinue
  \/ sup_pc # "startup" /\ CancelNext /\ RunOMFrame
  \/ sup_pc # "startup" /\ CancelWake /\ RunOMFrame
  \/ sup_pc # "startup" /\ \E reply \in CancelReplies : CancelReply(reply) /\ RunOMFrame
  \/ sup_pc # "startup" /\ PlaceWake /\ RunOMFrame
  \/ sup_pc # "startup" /\ PlaceReply /\ RunOMFrame
  \/ Shutdown
  \/ FinalDone
  \/ sup_pc # "startup" /\ MainSuspended /\ Tick /\ UNCHANGED <<vwapVars, runVars>>

SpecNoise == Init /\ [][NextNoise]_vars

\* The number of book updates the smoothing is followed over.
MaxSmoothBooks == 3

\* The VWAP engine's reference price over a run of book updates, the
\* position staying what the startup reconciliation found.
NextSmooth ==
  \/ variant = "vwap" /\ \E us \in VwapUserStates : StartupReconcile(us, TRUE)
       /\ UNCHANGED <<vwapVars, runVars>>
  \/ \E book \in VwapBooks : VwapL2BookIn(book, MaxSmoothBooks, VWAP_DRY_RUN)
  \/ variant = "vwap" /\ q_pc = "cancel" /\ CancelNext /\ VwapFrame
  \/ variant = "vwap" /\ q_pc = "cancel" /\ CancelWake /\ VwapFrame
  \/ variant = "vwap" /\ q_pc = "cancel"
       /\ \E reply \in CancelReplies : CancelReply(reply) /\ VwapFrame
  \/ variant = "vwap" /\ q_pc = "cancel" /\ CancelDelayEnd /\ VwapFrame
  \/ VwapPlace
  \/ variant = "vwap" /\ q_pc = "place" /\ PlaceWake /\ VwapFrame
  \/ variant = "vwap" /\ q_pc = "place" /\ PlaceReply /\ VwapFrame
  \/ VwapFinish
  \/ variant = "vwap" /\ VwapSuspended /\ Tick /\ UNCHANGED <<vwapVars, runVars>>

SpecSmooth == Init /\ [][NextSmooth]_vars

\* Fills of the tracked instrument with side, size and price present: a
\* buy, a sell, and one whose side is neither "B" nor "A".
AccountFills ==
  GoodFills \cup {MkFill(TRUE, COIN, "S", "num", 1, "num", 100, FALSE)}

\* userFills messages made of them.
AccountsData ==
  { [kind |-> "dict", isSnapshot |-> FALSE, fills |-> fills] :
      fills \in UNION { [1..n -> AccountFills] : n \in 1..MaxFills } }

\* The enhanced engine's fill accounting: userFills messages and book
\* updates in any order on the receive loop.
NextAccounts ==
  \/ variant = "enhanced" /\ StartupReconcile(LedgerUserState, TRUE) /\ UNCHANGED <<vwapVars, runVars>>
  \/ variant = "enhanced" /\ \E data \in AccountsData : RecvUserFills(data) /\ UNCHANGED <<vwapVars, runVars>>
  \/ \E book \in LedgerBooks : L2Book(book) /\ UNCHANGED <<vwapVars, runVars>>

SpecAccounts == Init /\ [][NextAccounts]_vars

\* ws.recv returns an l2Book to an engine configured with DRY_RUN = True.
DryRunL2Book(book) ==
  /\ sup_pc = "recv"
  /\ recv_ready(q_pc, om_pc)
  /\ inbox # <<>>
  /\ Head(inbox).channel = "l2Book"
  /\ L2BookWith(book, l2book_outcome_dry(book, last_mid, last_quote_time, position,
                                         clock))
  /\ inbox' = Tail(inbox)
  /\ handled' = Head(inbox).id
  /\ sup_pc' = IF q_pc' = "idle" THEN inner_loop(stop_event) ELSE sup_pc
  /\ hb_pc' = IF q_pc' = "idle" /\ stop_event THEN "none" ELSE hb_pc
  /\ UNCHANGED <<vwapVars, stop_event, retry_count, reconnect_delay, aux_pc,
                 rec_exited, arrived, fails_in_row, final_cancels>>

\* The engines with DRY_RUN = True: the whole run() of the enhanced engine,
\* connection failures, disconnects and the shutdown included, and the book
\* updates of the VWAP engine.  The steps inside cancel_all and place_orders
\* that send to the exchange are not among the steps: no state enables them.
NextDry ==
  \/ Stop
  \/ RunStartup(TRUE)
  \/ \E ok \in BOOLEAN : Connect(ok)
  \/ \E channel \in Channels : Arrive(channel)
  \/ \E book \in Books : DryRunL2Book(book)
  \/ RunUserFills
  \/ RecvTimeout
  \/ \E closed_error \in BOOLEAN : RecvRaises(closed_error)
  \/ ClosingDone
  \/ BackoffEnd
  \/ Shutdown
  \/ FinalDone
  \/ sup_pc # "startup" /\ MainSuspended /\ Tick /\ UNCHANGED <<vwapVars, runVars>>
  \/ variant = "vwap" /\ \E us \in VwapUserStates : StartupReconcile(us, TRUE)
       /\ UNCHANGED <<vwapVars, runVars>>
  \/ \E book \in VwapBooks : VwapL2BookIn(book, MaxBooks, TRUE)
  \/ variant = "vwap" /\ VwapSuspended /\ Tick /\ UNCHANGED <<vwapVars, runVars>>

SpecDry == Init /\ [][NextDry]_vars

\* The event loop resumes a coroutine whose sleep has ended or whose
\* awaited call has returned: the steps of run() that wait on nothing
\* outside the process are taken.
SpecSupFair ==
  /\ SpecSup
  /\ WF_vars(ClosingDone)
  /\ WF_vars(BackoffEnd)
  /\ WF_vars(Shutdown)
  /\ WF_vars(FinalDone)


(* ------------------------------- claims -------------------------------- *)
\* C1: after any sequence of valid, non-snapshot fills of the tracked
\* instrument delivered since the last reconciliation overwrite, the position
\* is the value that overwrite wrote, plus the buy sizes, minus the sell
\* sizes of those fills, also while a reconciliation query is in flight.
C1_PositionIsReconciledPlusFills ==
  only_valid => position = recon_value + buys_since - sells_since

\* A reconciled, nonzero position moved by a buy and a sell while the next
\* reconciliation query is in flight.
C1_Witness ==
  /\ only_valid
  /\ rec_pc = "query"
  /\ recon_value # 0
  /\ buys_since > 0
  /\ sells_since > 0
  /\ inflight > 0

\* The sizes user_state us reports for the tracked instrument.
ReportedSizes(us) ==
  { us.assets[i].szi :
      i \in { j \in 1..Len(us.assets) :
                us.has /\ us.assets[j].coin = COIN /\ us.assets[j].szik = "num" } }

InstrumentAbsent(us) ==
  ~us.has \/ \A i \in 1..Len(us.assets) : us.assets[i].coin # COIN

\* C2: right after update_from_api returns from a successful query, the
\* position is the size the exchange reported for the instrument, 0 if the
\* instrument is absent from the report, whatever the position was before
\* and whatever fills were applied while the query was in flight.
C2_ReconcileOverwrites ==
  (last.op = "update_from_api" /\ last.ok /\ ~last.raised) =>
    /\ InstrumentAbsent(last.user_state) => position = 0
    /\ ReportedSizes(last.user_state) # {} =>
         position \in ReportedSizes(last.user_state)

\* update_from_api has just overwritten the position with a reported 80
\* after fills were applied while its query was in flight.
C2_Witness ==
  /\ last.op = "update_from_api" /\ last.ok
  /\ last.during > 0
  /\ ReportedSizes(last.user_state) = {80}
  /\ position = 80

\* C3: a userFills message flagged isSnapshot changes neither the position,
\* nor the cumulative PnL, nor the fills counter, nor the fill ledger, in
\* any of the three engines.
C3_SnapshotChangesNothing ==
  [][ (last'.op = "userFills" /\ last'.isSnapshot)
        => UNCHANGED <<position, total_pnl, fills_received, fill_records>> ]_vars


\* Admissions whose timestamp lies in the window of length RateWindow that
\* starts at t0.
AdmittedIn(t0) ==
  {i \in 1..Len(rl_admitted) : rl_admitted[i] >= t0 /\ rl_admitted[i] < t0 + RateWindow}

\* C8: with any number of concurrent callers of acquire(), at most
\* MaxRequests admissions have timestamps within any window of length
\* RateWindow.
C8_AtMostNPerWindow ==
  \A t0 \in 0..MaxClock : Cardinality(AdmittedIn(t0)) <= MaxRequests

\* C4: cancel_all called with nothing tracked returns 0, sends no
\* cancellation, takes no rate-limiter slot and leaves the set empty.
C4_CancelAllOnEmpty ==
  (om_pc = "cancel_done" /\ om.snapshot = {}) =>
    /\ om.ret = 0
    /\ om.confirmed \cup om.refused \cup om.threw = {}
    /\ requests = om.reqs_before
    /\ open_oids = {}

\* cancel_all returned on an empty set although the limiter holds requests
\* and orders were tracked earlier in the run.
C4_Witness ==
  /\ om_pc = "cancel_done"
  /\ om.snapshot = {}
  /\ requests # <<>>
  /\ next_oid > 1

\* C5: when cancel_all returns, of the ids it snapshotted the confirmed ones
\* are gone from the tracked set, the failed ones (non-ok response or
\* exception) are still in it, and the return value counts the confirmed
\* ones; every id of the snapshot was tried, so no failure ended the call.
C5_CancelAllPartialFailure ==
  om_pc = "cancel_done" =>
    /\ om.confirmed \cup om.refused \cup om.threw = om.snapshot
    /\ om.confirmed \cap open_oids = {}
    /\ om.refused \cup om.threw \subseteq open_oids
    /\ om.ret = Cardinality(om.confirmed)

\* One cancel_all saw a confirmation for one id and an exception for
\* another, and returned 1.
C5_Witness ==
  /\ om_pc = "cancel_done"
  /\ om.confirmed # {}
  /\ om.threw # {}
  /\ om.ret = 1

\* C6: place_orders returns [] without a slot or a call on an empty batch;
\* on an exception or a non-ok response it returns [] and the tracked set is
\* as it was when the call began.
C6_PlaceOrdersFailure ==
  /\ (om_pc = "place_done" /\ om.batch = <<>>) =>
       /\ om.ret = <<>>
       /\ om.reply.kind = "nocall"
       /\ requests = om.reqs_before
       /\ open_oids = om.open_before
  /\ (om_pc = "place_done" /\ om.reply.kind \in {"exception", "none", "err"}) =>
       /\ om.ret = <<>>
       /\ open_oids = om.open_before

\* A non-empty batch was refused while orders were tracked.
C6_Witness ==
  /\ om_pc = "place_done"
  /\ om.reply.kind = "err"
  /\ Len(om.batch) = 2
  /\ open_oids # {}

\* The ids of the "resting" statuses of a response, in response order.
RestingOids(statuses) ==
  [i \in 1..Len(Resting(statuses)) |-> Resting(statuses)[i].oid]

\* C7: on an ok response place_orders returns the ids of the resting
\* statuses in response order and adds exactly those to the tracked set; an
\* error status adds nothing and does not drop the others.
C7_PlaceOrdersResting ==
  (om_pc = "place_done" /\ om.reply.kind = "ok") =>
    /\ om.ret = RestingOids(om.reply.statuses)
    /\ open_oids = om.open_before \cup {om.ret[i] : i \in 1..Len(om.ret)}

\* An ok response whose first status is an error and whose second rests,
\* with an order tracked before.
C7_Witness ==
  /\ om_pc = "place_done"
  /\ om.reply.kind = "ok"
  /\ Len(om.reply.statuses) = 2
  /\ om.reply.statuses[1].kind = "error"
  /\ om.reply.statuses[2].kind = "resting"
  /\ om.open_before # {}
  /\ om.ret = <<om.reply.statuses[2].oid>>

\* A step that takes up a book update.
BookUpdate == q'.n = q.n + 1

\* The update submitted nothing: no cancel, no placement, no limiter slot.
NothingSubmitted == q_pc' = "idle" /\ UNCHANGED <<omVars, requests>>

\* The outcomes in which a gate other than the kill switch ended the update.
OtherGates == {"malformed", "debounced", "notional", "min_hold"}

\* C9: a book update taken up while |position| > STOP_TRADING_THRESHOLD
\* submits nothing; one taken up while that is not true is never stopped by
\* the kill switch, whatever happened at earlier updates, and goes on to
\* requote unless debounce, minimum notional or min-hold ends it.
C9_HardStop ==
  [][ BookUpdate =>
        /\ Abs(position) > STOP_TRADING_THRESHOLD =>
             q'.outcome = "halted" \/ q'.outcome \in {"malformed", "debounced"}
        /\ Abs(position) > STOP_TRADING_THRESHOLD => NothingSubmitted
        /\ Abs(position) <= STOP_TRADING_THRESHOLD =>
             /\ q'.outcome # "halted"
             /\ q'.outcome \notin OtherGates =>
                  q_pc' = "cancel" /\ q'.orders # <<>> /\ om'.op = "cancel_all"
    ]_vars

\* The first update was halted, the second one (position back within the
\* threshold) was quoted and its orders rest.
C9_Witness ==
  /\ q.n = 2
  /\ q.halted_before
  /\ q.outcome = "quote"
  /\ Abs(q.pos) <= STOP_TRADING_THRESHOLD
  /\ om_pc = "place_done"
  /\ om.ret # <<>>

\* C10 as stated: with position exactly at the stop threshold a book update
\* submits no orders.
C10_StopsAtThreshold ==
  [][ (BookUpdate /\ position = STOP_TRADING_THRESHOLD) => NothingSubmitted ]_vars

\* C10 as the code has it: exactly at the threshold the kill switch does not
\* stop the update, which quotes both sides unless another gate ends it;
\* one lot beyond the threshold nothing is submitted.
C10_StopsOnlyBeyondThreshold ==
  [][ BookUpdate =>
        /\ position = STOP_TRADING_THRESHOLD =>
             /\ q'.outcome # "halted"
             /\ q'.outcome \notin OtherGates =>
                  q_pc' = "cancel" /\ q'.orders = <<Order(TRUE), Order(FALSE)>>
        /\ position = STOP_TRADING_THRESHOLD + 1 => NothingSubmitted
    ]_vars

\* An update read position = 80 lots and both of its orders rest.
C10_Witness ==
  /\ q.pos = STOP_TRADING_THRESHOLD
  /\ q.outcome = "quote"
  /\ om_pc = "place_done"
  /\ Len(om.ret) = 2

HasBuy(orders) == \E i \in 1..Len(orders) : orders[i].is_buy
HasSell(orders) == \E i \in 1..Len(orders) : ~orders[i].is_buy

\* C11: under the soft circuit breaker, a processed book update that reads
\* |position| > MAX_POSITION * CIRCUIT_BREAKER_MULT sets the breaker flag and
\* goes on to submit a batch with no order on the risk-increasing side and
\* orders on the other side; a processed update that reads a position within
\* that bound clears the flag and quotes both sides; an update that is not
\* processed leaves the flag alone; the batch handed to place_orders is the
\* one that update built.
C11_SoftCircuitBreaker ==
  [][ /\ (BookUpdate /\ q'.outcome = "skipped") =>
           UNCHANGED circuit_breaker_active /\ NothingSubmitted
      /\ (BookUpdate /\ q'.outcome # "skipped") =>
           /\ circuit_breaker_active' = (Abs(position) * 2 > 3 * VWAP_MAX_POSITION)
           /\ q_pc' = "cancel" /\ om'.op = "cancel_all"
           /\ (Abs(position) * 2 > 3 * VWAP_MAX_POSITION /\ position > 0) =>
                ~HasBuy(q'.orders) /\ HasSell(q'.orders)
           /\ (Abs(position) * 2 > 3 * VWAP_MAX_POSITION /\ position < 0) =>
                ~HasSell(q'.orders) /\ HasBuy(q'.orders)
           /\ Abs(position) * 2 <= 3 * VWAP_MAX_POSITION =>
                HasBuy(q'.orders) /\ HasSell(q'.orders)
      /\ (q_pc = "cancel" /\ q_pc' = "place") => om'.batch = q.orders
      /\ ~BookUpdate => UNCHANGED circuit_breaker_active
    ]_vars

\* The previous processed update was in breach; this one read a position
\* within the bound, cleared the flag, and orders of both sides now rest.
C11_Witness ==
  /\ variant = "vwap"
  /\ q.n > 0
  /\ q.breaker_before
  /\ ~circuit_breaker_active
  /\ q.outcome = "quote"
  /\ Abs(q.pos) * 2 <= 3 * VWAP_MAX_POSITION
  /\ om_pc = "place_done"
  /\ HasBuy(om.batch) /\ HasSell(om.batch)
  /\ om.ret # <<>>

\* C12: a userFills message all of whose fills lack side, size or price or
\* are of another instrument changes neither the position nor the fill
\* ledger, the fills counter, the last-fill time or the cumulative PnL, in
\* every engine.
C12_DiscardsBadFills ==
  [][ (last'.op = "userFills" /\ last'.rejects) =>
        UNCHANGED <<position, fill_records, fills_received, last_fill_time, total_pnl>>
    ]_vars

\* The signed size of a ledger record.
SignedSize(r) == IF r.side = "B" THEN r.size ELSE 0 - r.size

\* C13: every record a userFills message appends to the ledger has
\* mid_price equal to the latest mid of the price window, or to its own
\* execution price when no book update was seen; its incremental PnL is
\* (mid - exec) * size for a buy and (exec - mid) * size for a sell; its
\* position_after is the position right after that fill was applied; one
\* record is appended per counted fill and earlier records are kept.
C13_LedgerRecord ==
  [][ (last'.op = "userFills" /\ variant = "enhanced") =>
        LET n == Len(fill_records)
            m == Len(fill_records')
        IN  /\ m - n = fills_received' - fills_received
            /\ SubSeq(fill_records', 1, n) = fill_records
            /\ \A i \in (n + 1)..m :
                 LET r == fill_records'[i]
                     before == IF i = n + 1 THEN position
                               ELSE fill_records'[i - 1].position_after
                 IN  /\ r.mid_price2 = IF price_buffer = <<>> THEN r.execution_price2
                                       ELSE price_buffer[Len(price_buffer)].mid2
                     /\ r.side \in {"B", "A"}
                     /\ r.side = "B" =>
                          r.pnl_incremental = (r.mid_price2 - r.execution_price2) * r.size
                     /\ r.side = "A" =>
                          r.pnl_incremental = (r.execution_price2 - r.mid_price2) * r.size
                     /\ r.position_after = before + SignedSize(r)
            /\ m > n => fill_records'[m].position_after = position'
    ]_vars

\* A buy of 1 lot at 100 before any book update (PnL 0), then two book
\* updates, then a sell of 2 lots at 101 against the latest mid 99.
C13_Witness ==
  /\ Len(fill_records) = 2
  /\ fill_records[1].side = "B"
  /\ fill_records[1].mid_price2 = fill_records[1].execution_price2
  /\ fill_records[1].pnl_incremental = 0
  /\ fill_records[1].position_after = 1
  /\ fill_records[2].side = "A"
  /\ fill_records[2].execution_price2 = 202
  /\ fill_records[2].mid_price2 = 198
  /\ fill_records[2].pnl_incremental = 8
  /\ fill_records[2].position_after = 0 - 1
  /\ Len(price_buffer) = 2
  /\ price_buffer[1].mid2 = 202

\* C14: when the account-state query of update_from_api fails, the position
\* is left as it was, update_from_api returns that value and does not raise,
\* and the reconciliation loop is back at its sleep, from where its next
\* cycle starts.
C14_QueryFailureNonFatal ==
  [][ (last'.op = "update_from_api" /\ ~last'.ok) =>
        /\ position' = position
        /\ last'.ret = position
        /\ ~last'.raised
        /\ rec_pc' = "sleep"
    ]_vars

\* A reconciliation cycle of the enhanced engine whose query failed has
\* just returned: the position, reconciled to 80 at startup and lowered by
\* a sell of 2 lots applied while the query was in flight, is retained and
\* returned, and the loop is at its sleep.
C14_Witness ==
  /\ variant = "enhanced"
  /\ last.op = "update_from_api"
  /\ ~last.ok
  /\ last.during > 0
  /\ recon_value = 80
  /\ position = 78
  /\ last.ret = 78
  /\ rec_pc = "sleep"

\* A step in which place_orders is called.
PlacesOrders == om'.op = "place_orders" /\ om.op # "place_orders"

\* C15 (its safety part): once the stop event is set, no task calls
\* place_orders again.
C15_NoPlacementAfterStop ==
  [][ stop_event => ~PlacesOrders ]_vars

\* C16: at most MAX_RECONNECT_ATTEMPTS connection attempts fail in a row;
\* once that many have, run() never enters websockets.connect again, it
\* returns, and when it has returned it has made exactly one final
\* cancel_all.
C16_BoundedReconnects ==
  /\ [](fails_in_row <= MAX_RECONNECT_ATTEMPTS)
  /\ [][ fails_in_row = MAX_RECONNECT_ATTEMPTS => sup_pc' # "connecting" ]_vars
  /\ [](sup_pc = "returned" => final_cancels = 1)
  /\ (fails_in_row = MAX_RECONNECT_ATTEMPTS) ~> (sup_pc = "returned")

\* run() has returned after MAX_RECONNECT_ATTEMPTS failed attempts in a
\* row, with no stop signal, having made its final cancel_all.
C16_Witness ==
  /\ sup_pc = "returned"
  /\ ~stop_event
  /\ fails_in_row = MAX_RECONNECT_ATTEMPTS
  /\ retry_count = MAX_RECONNECT_ATTEMPTS
  /\ final_cancels = 1

\* C17: a handler takes up a message only when no handler is running (the
\* previous one, with the cancel_all and place_orders it awaited, has
\* returned), and the message it takes up is the oldest one the connection
\* holds, later in arrival order than every message handled before.
C17_InArrivalOrder ==
  [][ handled' # handled =>
        /\ q_pc = "idle" /\ om_pc = "idle"
        /\ inbox # <<>>
        /\ handled' = Head(inbox).id
        /\ handled' > handled
        /\ \A i \in 2..Len(inbox) : inbox[i].id > handled'
        /\ inbox' = Tail(inbox)
    ]_vars

\* The handler of the first message, a book update, is in place_orders
\* after its cancel_all; the second message has arrived and waits.
C17_Witness ==
  /\ handled = 1
  /\ q_pc = "place"
  /\ om_pc = "place_call"
  /\ Len(inbox) = 1
  /\ inbox[1].id = 2

\* C18: while a cancel or place call of a book handler, or the limiter
\* sleep before it, is in flight and a message waits, the receive loop is
\* at ws.recv and can take the message up.
C18_ReceiveLoopNotStalled ==
  (/\ q_pc # "idle"
   /\ om_pc \in {"cancel_sleep", "cancel_call", "place_sleep", "place_call"}
   /\ inbox # <<>>)
  => recv_ready(q_pc, om_pc)

\* C19 (its heartbeat part): while the stop event is clear, a sleeping
\* heartbeat task is still there after any step, unless the connection
\* ended and cancelled it.
C19_HeartbeatKeepsRunning ==
  [][ (hb_pc = "sleep" /\ ~stop_event) => hb_pc' \in {"sleep", "none"} ]_vars

\* The distance between the two spreads at a position.
SkewGap(spread_pct, pos) ==
  Abs(compute_skewed_spreads(spread_pct, pos).ask_spread
      - compute_skewed_spreads(spread_pct, pos).bid_spread)

\* C20: the two spreads are equal at position 0; their distance grows
\* strictly with |position| below MAX_POSITION; and the side whose fill
\* would reduce |position| (the ask when long, the bid when short) never has
\* the wider spread.
C20_SkewFavoursRiskReduction ==
  last.op = "compute_skewed_spreads" =>
    /\ last.pos = 0 => last.ret.bid_spread = last.ret.ask_spread
    /\ (last.pos # 0 /\ Abs(last.pos) < MAX_POSITION) =>
         SkewGap(last.spread_pct, last.pos)
           > SkewGap(last.spread_pct, IF last.pos > 0 THEN last.pos - 1 ELSE last.pos + 1)
    /\ last.pos > 0 => last.ret.ask_spread <= last.ret.bid_spread
    /\ last.pos < 0 => last.ret.bid_spread <= last.ret.ask_spread

\* clamp(p / M, -1, 1) times M, written out by cases.
ClampedRatio(p) ==
  IF p >= MAX_POSITION THEN MAX_POSITION
  ELSE IF p <= 0 - MAX_POSITION THEN 0 - MAX_POSITION
  ELSE p

\* base * 2M, the value of an unskewed side in the units of the results.
SkewBase == last.spread_pct * 2 * MAX_POSITION

\* C21: compute_skewed_spreads returns bid = base * (1 + k * max(0, -ratio))
\* and ask = base * (1 + k * max(0, ratio)) with ratio = clamp(p / M, -1, 1);
\* both equal base at p = 0, at most one side exceeds base, neither is below
\* base, and the result for |p| >= M is the result at |p| = M.
C21_SkewModel ==
  last.op = "compute_skewed_spreads" =>
    LET r == ClampedRatio(last.pos)
        neg == IF r < 0 THEN 0 - r ELSE 0
        pos == IF r > 0 THEN r ELSE 0
    IN  /\ 2 * last.ret.bid_spread
             = last.spread_pct * (4 * MAX_POSITION + 2 * POSITION_SKEW_FACTOR_X2 * neg)
        /\ 2 * last.ret.ask_spread
             = last.spread_pct * (4 * MAX_POSITION + 2 * POSITION_SKEW_FACTOR_X2 * pos)
        /\ last.pos = 0 =>
             last.ret.bid_spread = SkewBase /\ last.ret.ask_spread = SkewBase
        /\ last.ret.bid_spread = SkewBase \/ last.ret.ask_spread = SkewBase
        /\ last.ret.bid_spread >= SkewBase /\ last.ret.ask_spread >= SkewBase
        /\ last.pos >= MAX_POSITION =>
             last.ret = compute_skewed_spreads(last.spread_pct, MAX_POSITION)
        /\ last.pos <= 0 - MAX_POSITION =>
             last.ret = compute_skewed_spreads(last.spread_pct, 0 - MAX_POSITION)

\* The function was applied one lot beyond the limit with the base spread:
\* the ask is base * 2.5, the bid is base.
C21_Witness ==
  /\ last.op = "compute_skewed_spreads"
  /\ last.pos = MAX_POSITION + 1
  /\ last.spread_pct = 1000
  /\ last.ret.bid_spread = 1000 * 200
  /\ last.ret.ask_spread = 1000 * 500

C23_QuotePrices ==
  last.op = "quote_prices" =>
    LET b == times_factor(last.mid2, SpreadScale - last.spreads.bid_spread)
        a == times_factor(last.mid2, SpreadScale + last.spreads.ask_spread)
        den == 2 * SpreadScale
    IN  /\ last.buy_px % TICK_SIZE = 0
        /\ last.sell_px % TICK_SIZE = 0
        /\ Abs(last.buy_px - b.fl) <= TICK_SIZE
        /\ Abs(last.sell_px - a.fl) <= TICK_SIZE
        /\ 2 * Abs((last.buy_px - b.fl) * den - b.r) <= TICK_SIZE * den
        /\ 2 * Abs((last.sell_px - a.fl) * den - a.r) <= TICK_SIZE * den
        /\ last.submitted =>
             /\ 2 * last.buy_px < last.mid2
             /\ 2 * last.sell_px > last.mid2
        /\ (last.mid2 = 200000 /\ last.spread_pct = 1000 /\ last.pos = 0) =>
             /\ last.buy_px = 99900
             /\ last.sell_px = 100100

\* The scenario of the claim: mid 100000, base spread, flat.
C23_Witness ==
  /\ last.op = "quote_prices"
  /\ last.mid2 = 200000
  /\ last.spread_pct = 1000
  /\ last.pos = 0
  /\ last.submitted
  /\ last.buy_px = 99900
  /\ last.sell_px = 100100

Constant(prices) == \A i \in 1..Len(prices) : prices[i] = prices[1]

\* C24: compute_volatility returns 0 for fewer than 3 samples, 0 for a
\* window whose samples are all equal, 0 when the mean is not positive, a
\* positive value (sigma / mean) otherwise, and leaves the window as it was.
C24_Volatility ==
  last.op = "compute_volatility" =>
    /\ Len(last.window) < 3 => last.ret = FZero
    /\ Constant(last.window) => last.ret = FZero
    /\ vol_mean(last.window).m <= 0 => last.ret = FZero
    /\ (Len(last.window) >= 3 /\ ~Constant(last.window) /\ vol_mean(last.window).m > 0)
         => last.ret.m > 0
    /\ last.window_after = last.window

\* The valid levels among the first n.
ValidLevels(levels, n) ==
  {levels[i] : i \in {j \in 1..Min(n, Len(levels)) : levels[j].kind = "ok"}}

\* a <= b for floats.
FLeq(a, b) ==
  LET lo == Min(a.e, b.e) IN a.m * Pow2(a.e - lo) <= b.m * Pow2(b.e - lo)

\* The sizes of the levels at the places of the first n that hold a valid
\* level, summed exactly.
RECURSIVE TotalSize(_, _)
TotalSize(levels, n) ==
  IF n = 0 \/ levels = <<>> THEN 0
  ELSE (IF Head(levels).kind = "ok" THEN Head(levels).sz.m * Pow2(Head(levels).sz.e + 3) ELSE 0)
       + TotalSize(Tail(levels), n - 1)

\* C25: vwap returns the fallback for an empty list, for no valid level
\* among the first n and for a total size of zero; otherwise its result lies
\* between the lowest and the highest px of the valid levels among the
\* first n.
C25_Vwap ==
  last.op = "vwap" =>
    LET valid == ValidLevels(last.levels, last.n)
    IN  /\ last.levels = <<>> => last.ret = last.fallback
        /\ (valid = {} \/ TotalSize(last.levels, last.n) = 0) => last.ret = last.fallback
        /\ (valid # {} /\ TotalSize(last.levels, last.n) # 0) =>
             /\ \E l \in valid : FLeq(l.px, last.ret)
             /\ \E l \in valid : FLeq(last.ret, l.px)

\* C26: an exit from the receive loop by a connection error (the stop event
\* clear) goes to the cancel_all of the error branch, never straight to the
\* next connect; that cancel_all has returned and retry_count is raised
\* before the backoff sleep; and the next connect follows the backoff sleep
\* with the heartbeat task of the lost connection cancelled.
C26_ErrorExitCleansUp ==
  /\ [][(sup_pc = "recv" /\ sup_pc' # "recv" /\ ~stop_event) =>
          (sup_pc' = "closing" /\ om_pc' # "idle")]_vars
  /\ [][(sup_pc = "closing" /\ sup_pc' # "closing") =>
          (om_pc = "cancel_done" /\ sup_pc' = "backoff"
           /\ retry_count' = retry_count + 1)]_vars
  /\ [][(sup_pc # "connecting" /\ sup_pc' = "connecting") =>
          (sup_pc \in {"startup", "backoff"} /\ hb_pc \in {"none", "exited"})]_vars

\* C27: the backoff delay is always from 1 to MAX_RECONNECT_DELAY seconds;
\* the end of each backoff sleep doubles it up to the cap; it goes down only
\* when a connection is established, which sets it to 1 and retry_count to
\* 0; and whenever the receive loop is at ws.recv, where messages are taken
\* up, both have been reset.
C27_BackoffBounds ==
  /\ [](reconnect_delay >= 1 /\ reconnect_delay <= MAX_RECONNECT_DELAY)
  /\ [][(sup_pc = "backoff" /\ sup_pc' # "backoff") =>
          reconnect_delay' = Min(2 * reconnect_delay, MAX_RECONNECT_DELAY)]_vars
  /\ [][reconnect_delay' # reconnect_delay =>
          \/ sup_pc = "backoff" /\ reconnect_delay' > reconnect_delay
          \/ sup_pc = "connecting" /\ sup_pc' \in {"recv", "shutdown"}]_vars
  /\ [][(sup_pc = "connecting" /\ sup_pc' \in {"recv", "shutdown"}) =>
          (reconnect_delay' = 1 /\ retry_count' = 0)]_vars
  /\ [](sup_pc = "recv" => (reconnect_delay = 1 /\ retry_count = 0))

\* Six attempts in a row have failed: the delay went 1, 2, 4, 8, 16, 30 and
\* stays at the cap for the seventh.
C27_Witness ==
  /\ sup_pc = "connecting"
  /\ retry_count = 6
  /\ fails_in_row = 6
  /\ reconnect_delay = MAX_RECONNECT_DELAY

\* C28: the batch holds a buy exactly when position + size <= MAX_POSITION
\* and a sell exactly when position - size >= -MAX_POSITION, each side by
\* its own test; an update whose batch is empty is not quoted, and a quoted
\* update has a batch within both bounds.
C28_MaxPositionPerSide ==
  last.op = "build_orders" =>
    /\ (\E i \in 1..Len(last.orders) : last.orders[i].is_buy)
         <=> last.pos + BASE_SIZE <= MAX_POSITION
    /\ (\E i \in 1..Len(last.orders) : ~last.orders[i].is_buy)
         <=> last.pos - BASE_SIZE >= 0 - MAX_POSITION
    /\ last.orders = <<>> => last.outcome \notin {"quote", "dry_run"}
    /\ last.outcome \in {"quote", "dry_run"} =>
         /\ last.orders # <<>>
         /\ last.pos + BASE_SIZE <= MAX_POSITION
         /\ last.pos - BASE_SIZE >= 0 - MAX_POSITION

\* At position MAX_POSITION the buy is suppressed and the sell is not.
C28_Witness ==
  /\ last.op = "build_orders"
  /\ last.pos = MAX_POSITION
  /\ last.orders = <<Order(FALSE)>>

\* C29: place_orders is entered only after a cancel_all that has returned
\* with every id of its snapshot attempted, and with the batch of the update;
\* and cancel_all is entered only by an update that has a batch to place.
C29_CancelThenPlace ==
  /\ [][(om'.op = "place_orders" /\ om.op # "place_orders") =>
          /\ om.op = "cancel_all"
          /\ om_pc = "cancel_done"
          /\ om.todo = {}
          /\ om.snapshot = om.confirmed \cup om.refused \cup om.threw
          /\ om'.batch = q.orders
          /\ q.orders # <<>>]_vars
  /\ [][(om'.op = "cancel_all" /\ om.op # "cancel_all") =>
          /\ q'.n = q.n + 1
          /\ q'.outcome = "quote"
          /\ q'.orders # <<>>]_vars

\* The batch of a second update is being placed after a cancel_all that
\* confirmed one of two tracked orders and was refused the other.
C29_Witness ==
  /\ q_pc = "place"
  /\ om.op = "place_orders"
  /\ q.n = 2
  /\ cancels_sent = 1
  /\ Cardinality(om.open_before) = 1

TakenMid == price_buffer'[Len(price_buffer')].mid2

\* |mid - last_mid| / max(last_mid, 1) < 0.0002, on doubled mids.
SmallMove(mid2, lm) == Abs(mid2 - lm) * 10000 < 2 * Max(lm, 2)

\* C31: a well-formed book update whose mid moved less than 0.02 % from
\* last_mid and that is taken up less than MIN_HOLD_SECONDS after the last
\* quote is skipped: no cancel, no place, last_mid, last_quote_time, the
\* tracked ids and the counters as they were, the sample appended to the
\* window; an update is skipped this way only then, and never while there is
\* no last_mid.
C31_Debounce ==
  [][ (q'.n = q.n + 1 /\ price_buffer' # price_buffer) =>
        /\ (last_mid # 0 /\ SmallMove(TakenMid, last_mid)
            /\ clock - last_quote_time < MIN_HOLD_SECONDS)
             <=> q'.outcome = "debounced"
        /\ q'.outcome = "debounced" =>
             /\ om' = om /\ om_pc' = om_pc /\ q_pc' = "idle"
             /\ open_oids' = open_oids
             /\ last_mid' = last_mid
             /\ last_quote_time' = last_quote_time
             /\ cancels_sent' = cancels_sent /\ quotes_sent' = quotes_sent
             /\ position' = position
             /\ price_buffer' = update_price_buffer(price_buffer, clock, TakenMid)
        /\ last_mid = 0 => q'.outcome # "debounced"
    ]_vars

\* A second update on the quoted mid was taken up within the hold, with the
\* orders of the quote resting, and skipped.
C31_Witness ==
  /\ q.n = 2
  /\ q.outcome = "debounced"
  /\ last_mid # 0
  /\ clock - last_quote_time < MIN_HOLD_SECONDS
  /\ open_oids # {}
  /\ Len(price_buffer) >= 2

\* C32: last_quote_time and last_mid change in a step only when place_orders
\* has returned at least one resting id (or on the dry-run path); when the
\* placement returned no id they are what they were before the update, also
\* when cancel_all ran in it.
QuoteRecorded == last_quote_time' # last_quote_time \/ last_mid' # last_mid

C32_RecordedOnlyOnSuccess ==
  [][ /\ QuoteRecorded =>
           \/ q_pc = "place" /\ om_pc = "place_done" /\ om.ret # <<>>
                /\ q'.outcome = "quoted"
           \/ q'.outcome = "dry_run" /\ DRY_RUN
      /\ (q_pc = "place" /\ q_pc' = "idle" /\ om.ret = <<>>) =>
           /\ q'.outcome = "not_placed"
           /\ last_quote_time' = last_quote_time
           /\ last_mid' = last_mid
    ]_vars

C32_Witness ==
  /\ q.n = 2 /\ q.outcome = "not_placed" /\ cancels_sent >= 1
  /\ last_mid # 0 /\ q_pc = "idle"

\* The samples of a window all lie in [now - VOL_WINDOW_SECONDS, now].
InWindow(pb, now) ==
  \A i \in 1..Len(pb) : pb[i].t >= now - VOL_WINDOW_SECONDS /\ pb[i].t <= now

\* C33: the window a book update computes the volatility from, and the
\* newest sample a fill's PnL is priced with, hold only samples with a
\* timestamp in [now - W, now]; the window's timestamps never decrease from
\* oldest to newest.
C33_WindowReads ==
  [][ /\ price_buffer' # price_buffer => InWindow(price_buffer', clock)
      /\ (last'.op = "userFills" /\ Len(fill_records') > Len(fill_records)
          /\ price_buffer # <<>>) =>
           InWindow(<<price_buffer[Len(price_buffer)]>>, clock)
      /\ \A i \in 1..(Len(price_buffer') - 1) :
           price_buffer'[i].t <= price_buffer'[i + 1].t
    ]_vars

\* A frame the engine has no use for: not JSON, not an object, a channel
\* other than l2Book and userFills, or an l2Book whose book has a missing
\* or unparsable side.
NonActionable(f) ==
  \/ ~f.json \/ ~f.isdict
  \/ f.channel \notin {"l2Book", "userFills"}
  \/ f.channel = "l2Book" /\ ~f.book.ok

\* The receive loop takes a non-actionable frame off the stream, or its
\* wait for a frame times out.
ReceivesNothing ==
  \/ inbox # <<>> /\ inbox' = Tail(inbox) /\ NonActionable(Head(inbox).frame)
  \/ last'.op = "timeout" /\ last' # last

BookMid40 == 20 * (q'.book.bid + q'.book.ask)

\* C35: a well-formed book update of the VWAP engine whose mid is less than
\* MIN_REQUOTE_MOVE away from the reference leaves the reference, the
\* breaker flag, the orders and the counters as they were; any other one
\* sets the reference to 0.35 * mid + 0.65 * reference (to mid when there
\* was none) and enters cancel_all with a batch built.
C35_RequoteGate ==
  [][ (q'.n = q.n + 1 /\ variant = "vwap" /\ q'.book.ok) =>
        IF mid_adj_ema # 0 /\ Abs(BookMid40 - mid_adj_ema) < 40 * MIN_REQUOTE_MOVE
        THEN /\ q'.outcome = "skipped"
             /\ UNCHANGED <<mid_adj_ema, circuit_breaker_active, last_requote,
                            open_oids, om, om_pc, requests, cancels_sent,
                            quotes_sent, position>>
             /\ q_pc' = "idle"
        ELSE /\ mid_adj_ema' = IF mid_adj_ema = 0 THEN BookMid40
                                ELSE (7 * BookMid40 + 13 * mid_adj_ema) \div 20
             /\ q'.outcome = "quote"
             /\ q'.orders # <<>>
             /\ q_pc' = "cancel" /\ om'.op = "cancel_all"
    ]_vars

\* Three updates: the first sets the reference, the second carries a mid
\* 1000 higher, the third the same mid again, still 650 * 0.65 away from
\* the reference, and was requoted.
C35_Witness ==
  /\ variant = "vwap"
  /\ q.n = 3 /\ q.outcome = "quoted"
  /\ q.book = MkBook(TRUE, 101000, 101002)
  /\ mid_adj_ema = smooth(202002, smooth(202002, smooth(200002, 0)))
  /\ open_oids # {}

\* The ids a bulk_orders response reports as resting.
RestingIds(reply) ==
  {reply.statuses[i].oid : i \in {j \in 1..Len(reply.statuses) :
                                    reply.statuses[j].kind = "resting"}}

\* C36: open_oids changes only when place_orders takes a response with
\* resting ids (they are added) and when a cancel is answered ok (that id
\* is removed); a cancel that is refused or throws, a fill and every other
\* step leave it alone; cancel_all starts from all tracked ids and returns
\* only after a cancel went out for each of them.
C36_TrackedSetChanges ==
  [][ /\ open_oids' # open_oids =>
           \/ /\ om_pc = "place_call" /\ om_pc' = "place_done"
              /\ om'.reply.kind = "ok"
              /\ open_oids' = open_oids \cup RestingIds(om'.reply)
           \/ /\ om_pc = "cancel_call"
              /\ om.cur \in om'.confirmed
              /\ open_oids' = open_oids \ {om.cur}
      /\ last'.op = "userFills" => open_oids' = open_oids
      /\ (om.op # "cancel_all" /\ om'.op = "cancel_all") => om'.snapshot = open_oids
      /\ (om_pc # "cancel_done" /\ om_pc' = "cancel_done") =>
           om'.confirmed \cup om'.refused \cup om'.threw = om'.snapshot
    ]_vars

\* An order was placed and fills came in; the cancel_all of the shutdown
\* tried the id, was refused, and the id is still tracked.
C36_Witness ==
  /\ fills_received >= 1
  /\ sup_pc = "final_cancel"
  /\ om_pc = "cancel_done"
  /\ om.refused # {} /\ om.refused \subseteq open_oids

\* C37: a book update taken up while |position| > STOP_TRADING_THRESHOLD
\* sends no cancel and no order and leaves open_oids as it was; with no
\* handler in flight nothing else removes a tracked id during the breach.
C37_BreachKeepsOrders ==
  [][ /\ (BookUpdate /\ Abs(position) > STOP_TRADING_THRESHOLD) =>
           /\ open_oids' = open_oids
           /\ om' = om /\ om_pc' = om_pc /\ requests' = requests
           /\ cancels_sent' = cancels_sent /\ quotes_sent' = quotes_sent
           /\ q_pc' = "idle"
      /\ (Abs(position) > STOP_TRADING_THRESHOLD /\ q_pc = "idle") =>
           open_oids' = open_oids
    ]_vars

\* Orders were placed, the position then went past the threshold on the
\* short side, and the next update was halted with the orders still tracked.
C37_Witness ==
  /\ q.n = 2 /\ q.outcome = "halted" /\ q_pc = "idle"
  /\ position < 0 - STOP_TRADING_THRESHOLD
  /\ open_oids # {}

\* The batch of a handle_l2book goes to exchange.bulk_orders.
BatchSubmitted == q_pc' = "place" /\ om_pc # "place_call" /\ om_pc' = "place_call"

\* C38: when the batch of a book update reaches the exchange, the position
\* is within the stop threshold, position + size is within MAX_POSITION if
\* the batch has a buy and position - size within -MAX_POSITION if it has a
\* sell.
C38_ChecksHoldAtSubmission ==
  [][ BatchSubmitted =>
        /\ Abs(position') <= STOP_TRADING_THRESHOLD
        /\ HasBuy(om'.batch) => position' + BASE_SIZE <= MAX_POSITION
        /\ HasSell(om'.batch) => position' - BASE_SIZE >= 0 - MAX_POSITION
    ]_vars

\* The sum of the incremental PnL of the records of a ledger.
RECURSIVE SumPnl(_)
SumPnl(recs) ==
  IF recs = <<>> THEN 0 ELSE Head(recs).pnl_incremental + SumPnl(Tail(recs))

\* C39: after every step fills_received is the number of ledger records
\* and total_pnl the sum of their pnl_incremental; a step keeps the records
\* there were and appends to them; every appended record is a buy whose
\* fill raised the position by its size or a sell whose fill lowered it by
\* its size.
C39_FillAccounting ==
  [][ LET n == Len(fill_records)
          m == Len(fill_records')
      IN  /\ fills_received' = m
          /\ total_pnl' = SumPnl(fill_records')
          /\ m >= n
          /\ SubSeq(fill_records', 1, n) = fill_records
          /\ \A i \in (n + 1)..m :
               LET r == fill_records'[i]
                   before == IF i = n + 1 THEN position
                             ELSE fill_records'[i - 1].position_after
               IN  \/ r.side = "B" /\ r.position_after = before + r.size
                   \/ r.side = "A" /\ r.position_after = before - r.size
    ]_vars

\* What the update would have been with DRY_RUN = False.
WouldQuote ==
  /\ price_buffer' # price_buffer
  /\ l2book_outcome(MkBook(TRUE, TakenMid, 0), last_mid, last_quote_time, position,
                    clock) = "quote"

\* C40: with DRY_RUN = True no step of the run sends an order or a cancel:
\* the limiter admits no request, no call of the order manager gets past
\* `if not oids: return 0`, no handler enters cancel_all or place_orders,
\* no id is handed out and open_oids stays empty, through connection
\* failures, disconnects and the shutdown; a book update of the enhanced
\* engine that would have quoted sets last_quote_time and last_mid, and no
\* other one does.
C40_DryRunSendsNothing ==
  [][ /\ open_oids' = {} /\ requests' = <<>> /\ next_oid' = next_oid
      /\ om_pc' \in {"idle", "cancel_done"}
      /\ q_pc' = "idle"
      /\ cancels_sent' = 0 /\ quotes_sent' = 0
      /\ om'.op = "cancel_all" => om'.snapshot = {} /\ om'.ret = 0
      /\ om'.op \in {"none", "cancel_all"}
      /\ (BookUpdate /\ variant = "enhanced") =>
           /\ WouldQuote <=> q'.outcome = "dry_run"
           /\ q'.outcome = "dry_run" =>
                last_quote_time' = clock /\ last_mid' = TakenMid
           /\ q'.outcome # "dry_run" => UNCHANGED <<last_quote_time, last_mid>>
    ]_vars

\* A dry-run quote was recorded, the connection then failed (cancel_all of
\* the `except` branch, retry_count raised), and run() returned after the
\* final cancel_all.
C40_Witness ==
  /\ variant = "enhanced"
  /\ sup_pc = "returned" /\ final_cancels = 1
  /\ retry_count >= 1
  /\ q.outcome = "dry_run" /\ last_mid # 0 /\ last_quote_time = q.placed_at
  /\ open_oids = {}

====
